---- MODULE Spec2Model ----
(***************************************************************************)
(* Model of the NL-to-config synthesis pipeline of ingestion_agent         *)
(* (core/nlu_parser.py, core/config_models.py, core/llm_client.py).        *)
(*                                                                         *)
(* A Python str is a sequence of characters; a character is a one-letter   *)
(* TLA+ string, and a CJK character is written by its code point, e.g.     *)
(* "U+8868" for 表.  None and a missing dict key are the two reserved       *)
(* one-element sequences None and Absent.                                  *)
(*                                                                         *)
(*   U+4ECE 从  U+62BD 抽  U+53D6 取  U+5230 到  U+6570 数  U+636E 据  U+5E93 库 *)
(*   U+540D 名  U+79F0 称  U+4E3A 为  U+662F 是  U+8868 表  U+6E90 源  U+7684 的 *)
(*   U+4E2D 中  U+7528 用  U+6237 户  U+8D26 账  U+53F7 号  U+5BC6 密  U+7801 码 *)
(*   U+53E3 口  U+4EE4 令  U+5730 地  U+5740 址  U+4E3B 主  U+673A 机  U+5199 写 *)
(*   U+5165 入  U+5BFC 导  U+76EE 目  U+6807 标  U+6A21 模  U+5F0F 式  U+67B6 架 *)
(*   U+6784 构  U+FF1A ：  U+FF0C ，  U+3002 。                               *)
(***************************************************************************)
EXTENDS Integers, Sequences, FiniteSets, TLC

(***************************************************************************)
(* Python values                                                           *)
(***************************************************************************)
None == <<"<None>">>
Absent == <<"<absent>">>

\* bool(v) of a str-or-None value; dict.get(k) of a missing key is None
Truthy(v) == v # None /\ v # Absent /\ v # <<>>

\* dict.get(k): a missing key reads as None
Get(v) == IF v = Absent THEN None ELSE v

\* dict.get(k, d): only a missing key reads as the default
GetDefault(v, d) == IF v = Absent THEN d ELSE v

\* dict.setdefault(k, d)
SetDefault(v, d) == IF v = Absent THEN d ELSE v

\* str(v) inside an f-string
Fmt(v) == IF v = None \/ v = Absent THEN <<"N", "o", "n", "e">> ELSE v

\* sub in s, for a one-character sub
Contains(s, c) == \E i \in 1..Len(s) : s[i] = c

\* s.count(c)
Count(s, c) == Cardinality({i \in 1..Len(s) : s[i] = c})

FirstIndex(s, c) == CHOOSE i \in 1..Len(s) : s[i] = c /\ \A j \in 1..(i - 1) : s[j] # c

\* s.split(c, 1) of a string that contains c
SplitHead(s, c) == SubSeq(s, 1, FirstIndex(s, c) - 1)
SplitTail(s, c) == SubSeq(s, FirstIndex(s, c) + 1, Len(s))

\* s.replace(a, b) for one-character a and b
Replace(s, a, b) == [i \in 1..Len(s) |-> IF s[i] = a THEN b ELSE s[i]]

LowerLetters == {"a", "b", "c", "d", "e", "f", "g", "h", "i", "j", "k", "l", "m",
                 "n", "o", "p", "q", "r", "s", "t", "u", "v", "w", "x", "y", "z"}
UpperLetters == {"A", "B", "C", "D", "E", "F", "G", "H", "I", "J", "K", "L", "M",
                 "N", "O", "P", "Q", "R", "S", "T", "U", "V", "W", "X", "Y", "Z"}
Digits == {"0", "1", "2", "3", "4", "5", "6", "7", "8", "9"}

LowerOf == [c \in UpperLetters |->
    CASE c = "A" -> "a" [] c = "B" -> "b" [] c = "C" -> "c" [] c = "D" -> "d"
      [] c = "E" -> "e" [] c = "F" -> "f" [] c = "G" -> "g" [] c = "H" -> "h"
      [] c = "I" -> "i" [] c = "J" -> "j" [] c = "K" -> "k" [] c = "L" -> "l"
      [] c = "M" -> "m" [] c = "N" -> "n" [] c = "O" -> "o" [] c = "P" -> "p"
      [] c = "Q" -> "q" [] c = "R" -> "r" [] c = "S" -> "s" [] c = "T" -> "t"
      [] c = "U" -> "u" [] c = "V" -> "v" [] c = "W" -> "w" [] c = "X" -> "x"
      [] c = "Y" -> "y" [] c = "Z" -> "z"]

\* str.lower()
LowerChar(c) == IF c \in UpperLetters THEN LowerOf[c] ELSE c
Lower(s) == [i \in 1..Len(s) |-> LowerChar(s[i])]

\* str.isdigit()
IsDigit(s) == s # <<>> /\ \A i \in 1..Len(s) : s[i] \in Digits

DigitValue == [c \in Digits |->
    CASE c = "0" -> 0 [] c = "1" -> 1 [] c = "2" -> 2 [] c = "3" -> 3 [] c = "4" -> 4
      [] c = "5" -> 5 [] c = "6" -> 6 [] c = "7" -> 7 [] c = "8" -> 8 [] c = "9" -> 9]
DigitChar == <<"0", "1", "2", "3", "4", "5", "6", "7", "8", "9">>

\* int(s) of an all-digit string
RECURSIVE ToInt(_)
ToInt(s) == IF s = <<>> THEN 0
            ELSE 10 * ToInt(SubSeq(s, 1, Len(s) - 1)) + DigitValue[s[Len(s)]]

\* str(n) of a non-negative int
RECURSIVE IntStr(_)
IntStr(n) == IF n < 10 THEN <<DigitChar[n + 1]>>
             ELSE IntStr(n \div 10) \o <<DigitChar[(n % 10) + 1]>>

\* s.rstrip(c)
RECURSIVE RStrip(_, _)
RStrip(s, c) == IF s # <<>> /\ s[Len(s)] = c THEN RStrip(SubSeq(s, 1, Len(s) - 1), c) ELSE s

\* sub in s, for a substring sub
HasSubstring(s, sub) ==
    \E i \in 1..(Len(s) - Len(sub) + 1) : SubSeq(s, i, i + Len(sub) - 1) = sub

(***************************************************************************)
(* Python's re: a backtracking matcher.  A pattern is a tree of the nodes  *)
(* below; Ends(r, ic, txt, i, cap) is the sequence, in the order Python    *)
(* tries them, of <<end, capture>> pairs with which r matches at i; a      *)
(* position is the index of the next character, the capture is group 1 as  *)
(* <<first, last + 1>>.  Search is re.search: the leftmost start with a    *)
(* match, and that start's first alternative.                              *)
(***************************************************************************)
Lit(s) == [t |-> "lit", s |-> s]
Cls(S) == [t |-> "cls", S |-> S]
NotCls(S) == [t |-> "ncls", S |-> S]
AnyChar == [t |-> "ncls", S |-> {"\n"}]
Cat(rs) == [t |-> "cat", rs |-> rs]
Alt(rs) == [t |-> "alt", rs |-> rs]
Star(r) == [t |-> "star", r |-> r]
LazyStar(r) == [t |-> "lazystar", r |-> r]
Plus(r) == [t |-> "cat", rs |-> <<r, [t |-> "star", r |-> r]>>]
Opt(r) == [t |-> "alt", rs |-> <<r, [t |-> "cat", rs |-> <<>>]>>]
Bol == [t |-> "bol"]
Eol == [t |-> "eol"]
Grp(r) == [t |-> "grp", r |-> r]

NoCap == <<>>

LitAt(s, ic, txt, i) ==
    /\ i + Len(s) - 1 <= Len(txt)
    /\ \A j \in 1..Len(s) :
          IF ic THEN LowerChar(txt[i + j - 1]) = LowerChar(s[j]) ELSE txt[i + j - 1] = s[j]

\* one character against a class node
ClassAt(r, txt, i) ==
    /\ i <= Len(txt)
    /\ IF r.t = "cls" THEN txt[i] \in r.S ELSE txt[i] \notin r.S

\* the end of the longest run of class characters that starts at i
FirstOr(stops, d) == IF stops = {} THEN d ELSE CHOOSE j \in stops : \A k \in stops : j <= k
RunEnd(r, txt, i) == FirstOr({j \in i..Len(txt) : ~ClassAt(r, txt, j)}, Len(txt) + 1)

RECURSIVE Ends(_, _, _, _, _)
RECURSIVE EndsCat(_, _, _, _, _, _)
RECURSIVE EndsAlt(_, _, _, _, _, _)
RECURSIVE EndsEach(_, _, _, _, _, _)

\* continue with rs[k..] from each of the pairs ps, in order
EndsEach(ps, n, rs, k, ic, txt) ==
    IF n > Len(ps) THEN <<>>
    ELSE EndsCat(rs, k, ic, txt, ps[n][1], ps[n][2]) \o EndsEach(ps, n + 1, rs, k, ic, txt)

EndsCat(rs, k, ic, txt, i, cap) ==
    IF k > Len(rs) THEN << <<i, cap>> >>
    ELSE EndsEach(Ends(rs[k], ic, txt, i, cap), 1, rs, k + 1, ic, txt)

EndsAlt(rs, k, ic, txt, i, cap) ==
    IF k > Len(rs) THEN <<>>
    ELSE Ends(rs[k], ic, txt, i, cap) \o EndsAlt(rs, k + 1, ic, txt, i, cap)

\* a greedy repetition gives its ends longest first, a lazy one shortest first
RunsDown(i, e, cap) == [n \in 1..(e - i + 1) |-> <<e - n + 1, cap>>]
RunsUp(i, e, cap) == [n \in 1..(e - i + 1) |-> <<i + n - 1, cap>>]

\* group 1 spans from i to each end of the group's pattern
Captured(i, inner) == [n \in 1..Len(inner) |-> <<inner[n][1], <<i, inner[n][1]>> >>]

\* every repetition in the rules repeats a character class
Ends(r, ic, txt, i, cap) ==
    CASE r.t = "lit" -> IF LitAt(r.s, ic, txt, i) THEN << <<i + Len(r.s), cap>> >> ELSE <<>>
      [] r.t \in {"cls", "ncls"} -> IF ClassAt(r, txt, i) THEN << <<i + 1, cap>> >> ELSE <<>>
      [] r.t = "bol" -> IF i = 1 THEN << <<i, cap>> >> ELSE <<>>
      [] r.t = "eol" -> IF i = Len(txt) + 1 \/ (i = Len(txt) /\ txt[i] = "\n")
                        THEN << <<i, cap>> >> ELSE <<>>
      [] r.t = "cat" -> EndsCat(r.rs, 1, ic, txt, i, cap)
      [] r.t = "alt" -> EndsAlt(r.rs, 1, ic, txt, i, cap)
      [] r.t = "star" -> RunsDown(i, RunEnd(r.r, txt, i), cap)
      [] r.t = "lazystar" -> RunsUp(i, RunEnd(r.r, txt, i), cap)
      [] r.t = "grp" -> Captured(i, Ends(r.r, ic, txt, i, cap))

NoMatch == [found |-> FALSE]

\* the match object: its start, its end and group 1
MatchAt(txt, i, es) ==
    [found |-> TRUE, start |-> i, end |-> es[1][1],
     group |-> IF es[1][2] = NoCap THEN None ELSE SubSeq(txt, es[1][2][1], es[1][2][2] - 1)]

Least(S) == CHOOSE j \in S : \A k \in S : j <= k

LeftmostOf(r, ic, txt, starts) ==
    IF starts = {} THEN NoMatch
    ELSE MatchAt(txt, Least(starts), Ends(r, ic, txt, Least(starts), NoCap))

\* re.search from the leftmost start that has a match
SearchFrom(r, ic, txt, first) ==
    LeftmostOf(r, ic, txt, {i \in first..(Len(txt) + 1) : Ends(r, ic, txt, i, NoCap) # <<>>})

\* re.search(pattern, text) and re.search(pattern, text, flags=re.IGNORECASE)
Search(r, txt) == SearchFrom(r, FALSE, txt, 1)
SearchI(r, txt) == SearchFrom(r, TRUE, txt, 1)

\* the first pattern of a list that matches: the loops "for pattern in patterns"
RECURSIVE FirstMatch(_, _, _, _)
MatchOrNext(m, rs, k, ic, txt) == IF m.found THEN m ELSE FirstMatch(rs, k + 1, ic, txt)
FirstMatch(rs, k, ic, txt) ==
    IF k > Len(rs) THEN NoMatch
    ELSE MatchOrNext(SearchFrom(rs[k], ic, txt, 1), rs, k, ic, txt)

\* match.group(1), or d without a match
GroupOr(m, d) == IF m.found THEN m.group ELSE d

\* v or d
OrElse(v, d) == IF Truthy(v) THEN v ELSE d

(***************************************************************************)
(* Module constants of nlu_parser.py                                       *)
(***************************************************************************)
DEFAULT_UC_BASE_PATH == <<"a", "b", "f", "s", "s", ":", "/", "/", "u", "c", "t", "a", "r", "h", "o", "n", "e", "@", "t", "a", "r", "h", "o", "n", "e", "m", "e", "t", "a", "s", "t", "o", "r", "e", ".", "d", "f", "s", ".", "c", "o", "r", "e", ".", "c", "h", "i", "n", "a", "c", "l", "o", "u", "d", "a", "p", "i", ".", "c", "n", "/", "t", "a", "r", "h", "o", "n", "e", "r", "o", "o", "t", "1">>
DEFAULT_LAYER == <<"b", "r", "o", "n", "z", "e">>
DEFAULT_POSTGRES_PORT == 5432
DEFAULT_POSTGRES_DB == <<"p", "o", "s", "t", "g", "r", "e", "s">>
DEFAULT_JOB_NAME == <<"i", "n", "g", "e", "s", "t", "i", "o", "n", "_", "j", "o", "b">>

(***************************************************************************)
(* The text rules (FieldExtractor, CredentialExtractor)                    *)
(***************************************************************************)
\* \s
Ws == Cls({" ", "\t", "\n", "\r", "\f"})
\* [A-Za-z0-9_]
Word == Cls(LowerLetters \cup UpperLetters \cup Digits \cup {"_"})
\* [^\s,;，。]+ and [^\s,，。]+ and [^\s,，]+
CredToken == Plus(NotCls({" ", "\t", "\n", "\r", "\f", ",", ";", "U+FF0C", "U+3002"}))
HostToken == Plus(NotCls({" ", "\t", "\n", "\r", "\f", ",", "U+FF0C", "U+3002"}))
PathToken == Plus(NotCls({" ", "\t", "\n", "\r", "\f", ",", "U+FF0C"}))
\* [A-Za-z0-9_]+\.[A-Za-z0-9_]+ and [A-Za-z0-9_]+(?:\.[A-Za-z0-9_]+)?
Dotted == Cat(<<Plus(Word), Lit(<<".">>), Plus(Word)>>)
MaybeDotted == Cat(<<Plus(Word), Opt(Cat(<<Lit(<<".">>), Plus(Word)>>))>>)
\* (?:=|:|：|is|为|是), (?:=|:|：|为|是), (?:=|:|为), (?:=|:|是)
SepIs == Alt(<<Lit(<<"=">>), Lit(<<":">>), Lit(<<"U+FF1A">>), Lit(<<"i", "s">>), Lit(<<"U+4E3A">>), Lit(<<"U+662F">>)>>)
Sep == Alt(<<Lit(<<"=">>), Lit(<<":">>), Lit(<<"U+FF1A">>), Lit(<<"U+4E3A">>), Lit(<<"U+662F">>)>>)
SepSchema == Alt(<<Lit(<<"=">>), Lit(<<":">>), Lit(<<"U+4E3A">>)>>)
SepLayer == Alt(<<Lit(<<"=">>), Lit(<<":">>), Lit(<<"U+662F">>)>>)

UserPatterns == <<
    Cat(<<Alt(<<Lit(<<"U+7528", "U+6237", "U+540D">>), Lit(<<"u", "s", "e", "r", "n", "a", "m", "e">>), Lit(<<"u", "s", "e", "r">>), Lit(<<"U+8D26", "U+53F7">>)>>),
          Star(Ws), SepIs, Star(Ws), Grp(CredToken)>>),
    Cat(<<Alt(<<Lit(<<"u", "s", "e", "r">>), Lit(<<"u", "s", "e", "r", "n", "a", "m", "e">>)>>), Plus(Ws), Grp(CredToken)>>) >>

PasswordPatterns == <<
    Cat(<<Alt(<<Lit(<<"U+5BC6", "U+7801">>), Lit(<<"p", "a", "s", "s", "w", "o", "r", "d">>), Lit(<<"p", "w", "d">>), Lit(<<"U+53E3", "U+4EE4">>)>>),
          Star(Ws), SepIs, Star(Ws), Grp(CredToken)>>),
    Cat(<<Alt(<<Lit(<<"p", "a", "s", "s", "w", "o", "r", "d">>), Lit(<<"p", "w", "d">>)>>), Plus(Ws), Grp(CredToken)>>) >>

\* a key the loop leaves out of creds is Absent
_extract_inline_credentials(text) ==
    IF ~Truthy(text) THEN [user |-> Absent, password |-> Absent]
    ELSE [user |-> GroupOr(FirstMatch(UserPatterns, 1, TRUE, text), Absent),
          password |-> GroupOr(FirstMatch(PasswordPatterns, 1, TRUE, text), Absent)]

HostPatterns == <<
    Cat(<<Alt(<<Lit(<<"h", "o", "s", "t", "n", "a", "m", "e">>), Lit(<<"h", "o", "s", "t">>), Lit(<<"U+5730", "U+5740">>), Lit(<<"U+4E3B", "U+673A">>)>>),
          Star(Ws), Sep, Star(Ws), Grp(HostToken)>>),
    Cat(<<Alt(<<Lit(<<"U+5730", "U+5740", "U+4E3A">>), Lit(<<"U+4E3B", "U+673A", "U+4E3A">>)>>), Star(Ws), Grp(HostToken)>>) >>

DbPatterns == <<
    Cat(<<Alt(<<Lit(<<"d", "a", "t", "a", "b", "a", "s", "e">>), Lit(<<"d", "b">>), Cat(<<Lit(<<"U+6570", "U+636E", "U+5E93">>), Opt(Lit(<<"U+540D", "U+79F0">>))>>)>>),
          Star(Ws), Sep, Star(Ws), Grp(HostToken)>>),
    Cat(<<Alt(<<Lit(<<"U+6570", "U+636E", "U+5E93", "U+4E3A">>), Lit(<<"U+6570", "U+636E", "U+5E93", "U+540D", "U+4E3A">>), Lit(<<"U+6570", "U+636E", "U+5E93", "U+540D", "U+662F">>),
                Lit(<<"U+6570", "U+636E", "U+5E93", "U+540D", "U+79F0", "U+4E3A">>), Lit(<<"U+6570", "U+636E", "U+5E93", "U+540D", "U+79F0", "U+662F">>)>>), Star(Ws), Grp(HostToken)>>) >>

\* int(maybe_port) if maybe_port.isdigit() else DEFAULT_POSTGRES_PORT
PortOf(maybe_port) == IF IsDigit(maybe_port) THEN ToInt(maybe_port) ELSE DEFAULT_POSTGRES_PORT

\* the host:port split and the database default
HostDbOf(host, db) ==
    IF Truthy(host) /\ Contains(host, ":")
    THEN [host |-> SplitHead(host, ":"), port |-> PortOf(SplitTail(host, ":")),
          db |-> OrElse(db, DEFAULT_POSTGRES_DB)]
    ELSE [host |-> host, port |-> DEFAULT_POSTGRES_PORT, db |-> OrElse(db, DEFAULT_POSTGRES_DB)]

_parse_host_db(text) ==
    HostDbOf(GroupOr(FirstMatch(HostPatterns, 1, TRUE, text), None),
             GroupOr(FirstMatch(DbPatterns, 1, TRUE, text), None))

SinkKeyword == Alt(<<Lit(<<"U+5199", "U+5165">>), Lit(<<"U+62BD", "U+53D6", "U+5230">>), Lit(<<"U+5BFC", "U+5165", "U+5230">>), Lit(<<"s", "i", "n", "k">>), Lit(<<"d", "a", "t", "a", "b", "r", "i", "c", "k", "s">>),
                     Lit(<<"U+76EE", "U+6807">>), Cat(<<Lit(<<"d", "e", "l", "t", "a">>), Star(Ws), Lit(<<"t", "a", "b", "l", "e">>)>>)>>)
SourceCutKeyword == Alt(<<Lit(<<"U+5199", "U+5165">>), Lit(<<"U+62BD", "U+53D6", "U+5230">>), Lit(<<"U+5BFC", "U+5165", "U+5230">>), Lit(<<"s", "i", "n", "k">>),
                          Lit(<<"d", "a", "t", "a", "b", "r", "i", "c", "k", "s">>), Lit(<<"U+76EE", "U+6807">>)>>)

\* text[m.start():] and text[:m.start()]
TailFrom(m, text) == IF m.found THEN SubSeq(text, m.start, Len(text)) ELSE text
HeadUpTo(m, text) == IF m.found THEN SubSeq(text, 1, m.start - 1) ELSE text

_get_sink_segment(text) == TailFrom(SearchI(SinkKeyword, text), text)

_get_source_segment(text) == HeadUpTo(SearchI(SourceCutKeyword, text), text)

SchemaToken == Cat(<<Alt(<<Lit(<<"s", "c", "h", "e", "m", "a">>), Lit(<<"U+6A21", "U+5F0F">>)>>), Star(Ws), SepSchema, Star(Ws),
                     Grp(Plus(Word))>>)

_parse_schema_token(text) == GroupOr(SearchI(SchemaToken, text), None)

UcPath == Grp(Cat(<<Lit(<<"a", "b", "f", "s", "s", ":", "/", "/">>), PathToken>>))

\* m.group(1).rstrip("/")
StrippedPath(m) == IF m.found THEN RStrip(m.group, "/") ELSE None

_parse_uc_path(text) == StrippedPath(Search(UcPath, text))

LayerToken == Cat(<<Lit(<<"l", "a", "y", "e", "r">>), Star(Ws), SepLayer, Star(Ws), Grp(Plus(Word))>>)

\* m.group(1).lower()
LoweredGroup(m) == IF m.found THEN Lower(m.group) ELSE None

_parse_layer(text) == LoweredGroup(SearchI(LayerToken, text))

SinkTablePatterns == <<
    Cat(<<Alt(<<Lit(<<"U+76EE", "U+6807", "U+8868", "U+540D", "U+4E3A">>), Lit(<<"U+76EE", "U+6807", "U+8868", "U+540D", "U+662F">>), Lit(<<"U+76EE", "U+6807", "U+8868", "U+4E3A">>), Lit(<<"U+76EE", "U+6807", "U+8868", "U+662F">>),
                Lit(<<"U+5199", "U+5165", "U+8868">>), Lit(<<"U+5199", "U+5165">>), Lit(<<"U+62BD", "U+53D6", "U+5230">>), Lit(<<"U+5BFC", "U+5165", "U+5230">>)>>),
          Star(Ws), Grp(Dotted)>>),
    Cat(<<Grp(Dotted), Star(Ws), Opt(Lit(<<"U+7684">>)), Star(Ws), Lit(<<"U+8868">>)>>),
    Cat(<<Lit(<<"U+8868">>), Plus(Ws), Grp(Dotted)>>),
    Cat(<<Alt(<<Bol, Ws>>), Grp(Dotted), Alt(<<Ws, Eol, Lit(<<"U+4E2D">>), Lit(<<"U+7684">>)>>)>>) >>

NameBeforeTable == Cat(<<Grp(Plus(Word)), Star(Ws), Lit(<<"U+8868">>)>>)

\* the loop over patterns: a match that fails the host-name filter falls through
RECURSIVE SinkTableLoop(_, _)
SinkTableStep(m, k, sink_text) ==
    IF m.found /\ ~Contains(m.group, "-") /\ Count(m.group, ".") = 1
    THEN m.group
    ELSE SinkTableLoop(k + 1, sink_text)
SinkTableLoop(k, sink_text) ==
    IF k > Len(SinkTablePatterns) THEN None
    ELSE SinkTableStep(Search(SinkTablePatterns[k], sink_text), k, sink_text)

\* "name 表" with the schema token, or default, before it
SchemaAndName(tbl_match, sink_text) ==
    IF tbl_match.found
    THEN OrElse(_parse_schema_token(sink_text), <<"d", "e", "f", "a", "u", "l", "t">>) \o <<".">> \o tbl_match.group
    ELSE None

SinkTableOr(found, sink_text) ==
    IF found # None THEN found ELSE SchemaAndName(Search(NameBeforeTable, sink_text), sink_text)

SinkTableIn(sink_text) == SinkTableOr(SinkTableLoop(1, sink_text), sink_text)

_parse_sink_table(text) == SinkTableIn(_get_sink_segment(text))

SourceTablePatterns == <<
    Cat(<<Alt(<<Lit(<<"U+8868", "U+540D", "U+4E3A">>), Lit(<<"U+8868", "U+540D", "U+662F">>), Lit(<<"U+6E90", "U+8868", "U+4E3A">>), Lit(<<"U+6E90", "U+8868", "U+662F">>)>>),
          Star(Ws), Grp(MaybeDotted)>>),
    Cat(<<Lit(<<"U+8868">>), Star(Ws), Grp(MaybeDotted)>>) >>

NotATable == {<<"d", "a", "t", "a", "b", "r", "i", "c", "k", "s">>, <<"d", "e", "l", "t", "a">>}

\* what the rules return for an accepted token
WithSchema(token, schema) ==
    IF ~Contains(token, ".") /\ Truthy(schema) THEN schema \o <<".">> \o token ELSE token
QualifiedToken(token, src_text) == WithSchema(token, _parse_schema_token(src_text))

RECURSIVE SourceTableLoop(_, _)
SourceTableStep(m, k, src_text) ==
    IF m.found /\ Lower(m.group) \notin NotATable
    THEN QualifiedToken(m.group, src_text)
    ELSE SourceTableLoop(k + 1, src_text)
SourceTableLoop(k, src_text) ==
    IF k > Len(SourceTablePatterns) THEN None
    ELSE SourceTableStep(Search(SourceTablePatterns[k], src_text), k, src_text)

\* "name 表" in the source segment
NameOfTable(m, src_text) ==
    IF m.found /\ Lower(m.group) \notin NotATable THEN QualifiedToken(m.group, src_text)
    ELSE None

SourceTableOr(found, src_text) ==
    IF found # None THEN found ELSE NameOfTable(Search(NameBeforeTable, src_text), src_text)

SourceTableIn(src_text) == SourceTableOr(SourceTableLoop(1, src_text), src_text)

_parse_source_table(text) == SourceTableIn(_get_source_segment(text))

(***************************************************************************)
(* The draft (raw_config): the mapping nl_to_config returns and the stages *)
(* of parse_request mutate.  A section (source, sink, an options mapping)  *)
(* carries in kind whether the JSON value is a mapping ("dict"), null      *)
(* ("none"), missing ("absent") or anything else ("other"); the keys of a  *)
(* section that is no mapping are all Absent.                              *)
(***************************************************************************)
NoOptions(kind) == [kind |-> kind, user |-> Absent, password |-> Absent, fetchsize |-> Absent]
NoSinkOptions(kind) == [kind |-> kind, path |-> Absent, mergeSchema |-> Absent]
NoSource(kind) ==
    [kind |-> kind, type |-> Absent, jdbc_url |-> Absent, table |-> Absent, topic |-> Absent,
     frequency |-> Absent, options |-> NoOptions("absent")]
NoSink(kind) ==
    [kind |-> kind, type |-> Absent, path |-> Absent, catalog |-> Absent, database |-> Absent,
     table |-> Absent, mode |-> Absent, layer |-> Absent, options |-> NoSinkOptions("absent")]
NoAggregate(kind) == [kind |-> kind, metrics |-> "absent"]
NoTransformations(kind) == [kind |-> kind, select |-> "absent", aggregate |-> NoAggregate("absent")]

\* the JSON object {}
EmptyDraft ==
    [kind |-> "dict", _raw |-> Absent, validation_error |-> Absent, missing |-> <<>>,
     job_name |-> Absent, source |-> NoSource("absent"), sink |-> NoSink("absent"),
     transformations |-> NoTransformations("absent")]

\* bool(d) of an options mapping
NonEmptyDict(o) == o.kind = "dict" /\ \E k \in DOMAIN o \ {"kind"} : o[k] # Absent

(***************************************************************************)
(* NLUParser._prefill_from_text                                            *)
(***************************************************************************)
SourceSchemaPattern ==
    Cat(<<Alt(<<Lit(<<"U+6E90">>), Lit(<<"s", "o", "u", "r", "c", "e">>)>>), LazyStar(AnyChar),
          Alt(<<Lit(<<"s", "c", "h", "e", "m", "a">>), Lit(<<"U+6A21", "U+5F0F">>), Lit(<<"U+67B6", "U+6784">>)>>), Star(Ws), SepIs, Star(Ws),
          Grp(Plus(Word))>>)
SinkSchemaPattern ==
    Cat(<<Alt(<<Lit(<<"s", "c", "h", "e", "m", "a">>), Lit(<<"U+6A21", "U+5F0F">>), Lit(<<"U+67B6", "U+6784">>)>>), Star(Ws), SepIs, Star(Ws),
          Grp(Plus(Word))>>)
SinkTableNamePatterns == <<
    Cat(<<Alt(<<Lit(<<"U+8868", "U+540D", "U+4E3A">>), Lit(<<"U+8868", "U+540D", "U+662F">>), Lit(<<"U+8868", "U+4E3A">>),
                Cat(<<Lit(<<"t", "a", "b", "l", "e">>), Star(Ws), Opt(Cat(<<Lit(<<"n", "a", "m", "e">>), Star(Ws)>>)), SepIs>>)>>),
          Star(Ws), Grp(Plus(Word))>>) >>

\* lines 184-194: the schema the text names for the source, or the dialect's default
DefaultSchema(table, type, schema_match) ==
    IF schema_match.found THEN schema_match.group \o <<".">> \o table
    ELSE IF type = <<"p", "o", "s", "t", "g", "r", "e", "s">> THEN <<"p", "u", "b", "l", "i", "c", ".">> \o table
    ELSE IF type = <<"m", "y", "s", "q", "l">> THEN table
    ELSE IF type = <<"s", "q", "l", "s", "e", "r", "v", "e", "r">> THEN <<"d", "b", "o", ".">> \o table
    ELSE table

\* lines 179-194: a table name without a dot gets a schema
QualifySourceTable(table, type, text) ==
    IF Truthy(table) /\ ~Contains(table, ".")
    THEN DefaultSchema(table, type, SearchI(SourceSchemaPattern, _get_source_segment(text)))
    ELSE table

\* lines 174-194: the source table, text first, then the schema
PrefillSourceTable(source, text) ==
    QualifySourceTable(OrElse(_parse_source_table(text), source.table), source.type, text)

\* lines 196-200: source type from the text
PrefillSourceType(source, text) ==
    IF ~Truthy(source.type)
       /\ (HasSubstring(Lower(text), <<"p", "o", "s", "t", "g", "r", "e", "s">>) \/ HasSubstring(Lower(text), <<"p", "g", "s", "q", "l">>))
    THEN <<"p", "o", "s", "t", "g", "r", "e", "s">> ELSE source.type

WithSourceType(source, text) == [source EXCEPT !.type = PrefillSourceType(source, text)]

\* lines 201-202
WithFrequency(source) == [source EXCEPT !.frequency = OrElse(@, <<"d", "a", "i", "l", "y">>)]

PrefillSource(source, text) ==
    WithFrequency(WithSourceType([source EXCEPT !.table = PrefillSourceTable(source, text)],
                                 text))

\* lines 165-168
SinkDefaults(sink) ==
    [sink EXCEPT !.type = SetDefault(@, <<"d", "e", "l", "t", "a">>),
                 !.layer = SetDefault(@, DEFAULT_LAYER),
                 !.mode = SetDefault(@, <<"a", "p", "p", "e", "n", "d">>)]

\* lines 204-213: the sink table the text names
SinkFromText(sink, sink_tbl) ==
    IF Truthy(sink_tbl)
    THEN IF Contains(sink_tbl, ".")
         THEN [sink EXCEPT !.database = SplitHead(sink_tbl, "."),
                           !.table = SplitTail(sink_tbl, ".")]
         ELSE [sink EXCEPT !.table = sink_tbl]
    ELSE sink

\* lines 215-222: a schema token for a sink without database
SinkSchemaFrom(sink, schema_match) ==
    IF ~Truthy(sink.database) /\ schema_match.found
    THEN [sink EXCEPT !.database = schema_match.group] ELSE sink

\* lines 224-231: a table-name token for a sink without table
SinkTableFrom(sink, table_match) ==
    IF ~Truthy(sink.table) /\ table_match.found
    THEN [sink EXCEPT !.table = table_match.group] ELSE sink

\* lines 204-231: sink database and table
PrefillSinkNames(sink, text) ==
    SinkTableFrom(SinkSchemaFrom(SinkFromText(sink, _parse_sink_table(text)),
                                 SearchI(SinkSchemaPattern, text)),
                  FirstMatch(SinkTableNamePatterns, 1, TRUE, _get_sink_segment(text)))

\* f"{base_path}/{layer}/{schema}/{table}"
UcPathFor(sink, base_path) ==
    base_path \o <<"/">> \o Fmt(GetDefault(sink.layer, DEFAULT_LAYER)) \o <<"/">>
      \o Fmt(GetDefault(sink.database, <<"d", "e", "f", "a", "u", "l", "t">>)) \o <<"/">> \o sink.table

\* lines 233-242: sink path
PrefillSinkPath(sink, text) ==
    IF Truthy(sink.path) THEN sink.path
    ELSE IF Truthy(sink.table)
    THEN UcPathFor(sink, OrElse(_parse_uc_path(text), DEFAULT_UC_BASE_PATH))
    ELSE None

WithSinkPath(sink, text) == [sink EXCEPT !.path = PrefillSinkPath(sink, text)]

PrefillSink(sink, text) == WithSinkPath(PrefillSinkNames(SinkDefaults(sink), text), text)

\* lines 244-251: job name
PrefillJobName(job_name, source, sink) ==
    IF Truthy(job_name) THEN job_name
    ELSE IF Truthy(sink.table) THEN <<"i", "n", "g", "e", "s", "t", "_">> \o Replace(sink.table, ".", "_")
    ELSE IF Truthy(source.table) THEN <<"i", "n", "g", "e", "s", "t", "_">> \o source.table
    ELSE DEFAULT_JOB_NAME

WithSections(raw_config, source, sink) ==
    [raw_config EXCEPT !.source = source, !.sink = sink,
                       !.job_name = PrefillJobName(@, source, sink)]

_prefill_from_text(raw_config, text) ==
    WithSections(raw_config, PrefillSource(raw_config.source, text),
                 PrefillSink(raw_config.sink, text))

(***************************************************************************)
(* NLUParser._fill_jdbc_and_sink_defaults                                  *)
(***************************************************************************)
\* lines 257-261
JdbcUrlOf(source, hd) ==
    IF source.type = <<"p", "o", "s", "t", "g", "r", "e", "s">> /\ Truthy(hd.host)
    THEN <<"j", "d", "b", "c", ":", "p", "o", "s", "t", "g", "r", "e", "s", "q", "l", ":", "/", "/">> \o hd.host \o <<":">> \o IntStr(hd.port) \o <<"/">>
           \o OrElse(hd.db, DEFAULT_POSTGRES_DB)
    ELSE source.jdbc_url

FillJdbcUrl(source, text) == JdbcUrlOf(source, _parse_host_db(text))

\* lines 263-267
FillSinkSplit(sink) ==
    IF Truthy(sink.table) /\ Contains(sink.table, ".") /\ ~Truthy(sink.database)
    THEN [sink EXCEPT !.database = SplitHead(sink.table, "."),
                      !.table = SplitTail(sink.table, ".")]
    ELSE sink

\* FillSinkPath without the test "not sink.get('path')": the path is always recomputed
FillSinkPathAlways(sink, text) ==
    IF Truthy(sink.table)
    THEN UcPathFor(sink, OrElse(_parse_uc_path(text), DEFAULT_UC_BASE_PATH))
    ELSE sink.path

\* lines 272-278
FillSinkPath(sink, text) ==
    IF ~Truthy(sink.path) /\ Truthy(sink.table)
    THEN UcPathFor(sink, OrElse(_parse_uc_path(text), DEFAULT_UC_BASE_PATH))
    ELSE sink.path

WithFilledPath(sink, text) == [sink EXCEPT !.path = FillSinkPath(sink, text)]

\* lines 280-281
DropOptionsPath(sink) ==
    IF NonEmptyDict(sink.options) THEN [sink EXCEPT !.options.path = Absent] ELSE sink

_fill_jdbc_and_sink_defaults(raw_config, text) ==
    [raw_config EXCEPT !.source.jdbc_url = FillJdbcUrl(raw_config.source, text),
                       !.sink = DropOptionsPath(WithFilledPath(FillSinkSplit(@), text))]

(***************************************************************************)
(* NLUParser._validate_required_fields                                     *)
(***************************************************************************)
LabelSourceType == <<"U+6E90", "U+6570", "U+636E", "U+5E93", "U+7C7B", "U+578B", " ", "(", "p", "o", "s", "t", "g", "r", "e", "s", "/", "m", "y", "s", "q", "l", "/", "s", "q", "l", "s", "e", "r", "v", "e", "r", ")">>
LabelHost == <<"U+6E90", "U+6570", "U+636E", "U+5E93", "U+4E3B", "U+673A", "U+5730", "U+5740", " ", "(", "h", "o", "s", "t", "n", "a", "m", "e", ")">>
LabelSourceTable == <<"U+6E90", "U+8868", "U+540D", "U+79F0", " ", "(", "U+5FC5", "U+987B", "U+660E", "U+786E", "U+6307", "U+5B9A", "U+FF0C", "U+4F8B", "U+5982", ":", " ", "U+8868", "U+540D", "U+4E3A", "v", "w", "t", "a", "b", "l", "e", "1", " ", "U+6216", " ", "U+8868", "=", "s", "c", "h", "e", "m", "a", ".", "t", "a", "b", "l", "e", ")">>
LabelUser == <<"U+6570", "U+636E", "U+5E93", "U+7528", "U+6237", "U+540D", " ", "(", "u", "s", "e", "r", "n", "a", "m", "e", ")">>
LabelPassword == <<"U+6570", "U+636E", "U+5E93", "U+5BC6", "U+7801", " ", "(", "p", "a", "s", "s", "w", "o", "r", "d", ")">>
LabelSinkTable == <<"U+76EE", "U+6807", "U+8868", "U+540D", "U+79F0", " ", "(", "s", "c", "h", "e", "m", "a", ".", "t", "a", "b", "l", "e", ")">>
LabelSinkSchema == <<"U+76EE", "U+6807", "s", "c", "h", "e", "m", "a", "U+540D", "U+79F0">>

\* the text lacks a credential
CredsLacking(creds) == ~Truthy(creds.user) \/ ~Truthy(creds.password)

\* source.get("options", {}).get(key) raises AttributeError on an options value
\* that is no mapping; it is evaluated only when the text gives no such credential
OptionsLookupRaises(raw_config, text) ==
    /\ raw_config.source.options.kind \in {"none", "other"}
    /\ CredsLacking(_extract_inline_credentials(text))

\* MissingOf without the look into source options: only the text's credentials count
MissingOfTextOnly(source, sink, creds, hd) ==
    (IF ~Truthy(source.type) THEN <<LabelSourceType>> ELSE <<>>)
    \o (IF ~Truthy(source.jdbc_url) /\ ~Truthy(hd.host) THEN <<LabelHost>> ELSE <<>>)
    \o (IF ~Truthy(source.table) THEN <<LabelSourceTable>> ELSE <<>>)
    \o (IF ~Truthy(creds.user) THEN <<LabelUser>> ELSE <<>>)
    \o (IF ~Truthy(creds.password) THEN <<LabelPassword>> ELSE <<>>)
    \o (IF ~Truthy(sink.database) /\ ~Truthy(sink.table) THEN <<LabelSinkTable>>
        ELSE IF Truthy(sink.table) /\ ~Contains(sink.table, ".") /\ ~Truthy(sink.database)
        THEN <<LabelSinkSchema>> ELSE <<>>)

\* the list "missing", in the order the checks append to it
MissingOf(source, sink, creds, hd) ==
    (IF ~Truthy(source.type) THEN <<LabelSourceType>> ELSE <<>>)
    \o (IF ~Truthy(source.jdbc_url) /\ ~Truthy(hd.host) THEN <<LabelHost>> ELSE <<>>)
    \o (IF ~Truthy(source.table) THEN <<LabelSourceTable>> ELSE <<>>)
    \o (IF ~Truthy(creds.user) /\ ~Truthy(source.options.user)
        THEN <<LabelUser>> ELSE <<>>)
    \o (IF ~Truthy(creds.password) /\ ~Truthy(source.options.password)
        THEN <<LabelPassword>> ELSE <<>>)
    \o (IF ~Truthy(sink.database) /\ ~Truthy(sink.table) THEN <<LabelSinkTable>>
        ELSE IF Truthy(sink.table) /\ ~Contains(sink.table, ".") /\ ~Truthy(sink.database)
        THEN <<LabelSinkSchema>> ELSE <<>>)

MissingFields(raw_config, text) ==
    MissingOf(raw_config.source, raw_config.sink, _extract_inline_credentials(text),
              _parse_host_db(text))

(***************************************************************************)
(* NLUParser._normalize_transformations.  select is "absent", "null",      *)
(* "list", "columns" ({"columns": [...]}) or "dict" (another mapping);     *)
(* aggregate.metrics is "absent", "list", "empty" ({}), "blank" (a mapping *)
(* whose values are all empty) or "functions".                             *)
(***************************************************************************)
_normalize_transformations(raw_config) ==
    LET tf == IF raw_config.transformations.kind = "dict" THEN raw_config.transformations
              ELSE NoTransformations("dict")
        sel == tf.select
        agg == tf.aggregate
    IN  [raw_config EXCEPT !.transformations =
            [kind |-> "dict",
             select |-> IF sel \in {"absent", "null", "columns"} THEN "list" ELSE sel,
             aggregate |-> IF agg.kind = "dict"
                           THEN [agg EXCEPT !.metrics = IF @ = "list" THEN "empty" ELSE @]
                           ELSE NoAggregate("none")]]

(***************************************************************************)
(* config_models.py: the enumerations and IngestionJobConfig.parse_obj     *)
(***************************************************************************)
SourceType == {<<"p", "o", "s", "t", "g", "r", "e", "s">>, <<"m", "y", "s", "q", "l">>, <<"s", "q", "l", "s", "e", "r", "v", "e", "r">>, <<"k", "a", "f", "k", "a">>, <<"e", "v", "e", "n", "t", "_", "h", "u", "b", "s">>}
SinkType == {<<"d", "e", "l", "t", "a">>, <<"j", "d", "b", "c">>, <<"t", "a", "b", "l", "e">>}
Frequency == {<<"o", "n", "c", "e">>, <<"h", "o", "u", "r", "l", "y">>, <<"d", "a", "i", "l", "y">>, <<"s", "t", "r", "e", "a", "m", "i", "n", "g">>}

\* AggregateConfig.metrics_not_empty: v and not any(v.values())
metrics_not_empty_raises(metrics) == metrics = "blank"

\* SourceConfig.validate_source raises
validate_source_raises(values) ==
    \/ /\ values.type \in {<<"p", "o", "s", "t", "g", "r", "e", "s">>, <<"m", "y", "s", "q", "l">>, <<"s", "q", "l", "s", "e", "r", "v", "e", "r">>}
       /\ (~Truthy(values.jdbc_url) \/ ~Truthy(values.table))
    \/ /\ values.type \in {<<"k", "a", "f", "k", "a">>, <<"e", "v", "e", "n", "t", "_", "h", "u", "b", "s">>}
       /\ (~Truthy(values.topic) \/ values.frequency # <<"s", "t", "r", "e", "a", "m", "i", "n", "g">>)

\* SinkConfig.validate_sink raises
validate_sink_raises(values) ==
    \/ values.type = <<"d", "e", "l", "t", "a">> /\ ~Truthy(values.path) /\ ~Truthy(values.table)
    \/ values.type = <<"j", "d", "b", "c">> /\ ~Truthy(values.table)

\* field coercion: a missing key takes the field's default
FieldsOfSource(source) ==
    [kind |-> "dict", type |-> source.type, jdbc_url |-> Get(source.jdbc_url),
     table |-> Get(source.table), topic |-> Get(source.topic),
     frequency |-> GetDefault(source.frequency, <<"d", "a", "i", "l", "y">>),
     options |-> IF source.options.kind = "absent" THEN NoOptions("dict") ELSE source.options]

FieldsOfSink(sink) ==
    [kind |-> "dict", type |-> sink.type, path |-> Get(sink.path), catalog |-> Get(sink.catalog),
     database |-> Get(sink.database), table |-> Get(sink.table),
     mode |-> GetDefault(sink.mode, <<"a", "p", "p", "e", "n", "d">>), layer |-> Get(sink.layer),
     options |-> IF sink.options.kind = "absent" THEN NoSinkOptions("dict") ELSE sink.options]

\* a field whose value has the wrong type or is no member of its enumeration
SourceFieldErrors(source) ==
    \/ source.kind # "dict"
    \/ source.type \notin SourceType
    \/ GetDefault(source.frequency, <<"d", "a", "i", "l", "y">>) \notin Frequency
    \/ source.options.kind \in {"none", "other"}

SinkFieldErrors(sink) ==
    \/ sink.kind # "dict"
    \/ sink.type \notin SinkType
    \/ sink.mode = None
    \/ sink.options.kind \in {"none", "other"}

TransformationErrors(tf) ==
    \/ tf.kind \notin {"dict", "absent"}
    \/ tf.select \notin {"list", "absent"}
    \/ tf.aggregate.kind = "other"
    \/ tf.aggregate.kind = "dict" /\ metrics_not_empty_raises(tf.aggregate.metrics)

\* IngestionJobConfig.parse_obj(raw) raises ValidationError
ParseObjRaises(raw) ==
    \/ raw.kind # "dict"
    \/ raw.job_name \in {None, Absent}
    \/ SourceFieldErrors(raw.source)
    \/ SinkFieldErrors(raw.sink)
    \/ TransformationErrors(raw.transformations)
    \/ validate_source_raises(FieldsOfSource(raw.source))
    \/ validate_sink_raises(FieldsOfSink(raw.sink))

\* IngestionJobConfig.parse_obj(raw) when it does not raise
ParseObj(raw) ==
    [job_name |-> raw.job_name,
     source |-> FieldsOfSource(raw.source),
     transformations |->
        [kind |-> "dict", select |-> "list",
         aggregate |-> IF raw.transformations.aggregate.kind = "dict"
                       THEN [kind |-> "dict",
                             metrics |-> IF raw.transformations.aggregate.metrics = "absent"
                                         THEN "empty"
                                         ELSE raw.transformations.aggregate.metrics]
                       ELSE NoAggregate("none")],
     sink |-> FieldsOfSink(raw.sink)]

\* a JobRequest without a config
NoConfig == [job_name |-> None]

(***************************************************************************)
(* NLUParser._build_from_text: a draft, or None (kind "none")              *)
(***************************************************************************)
\* lines 489-492: the path of the sink table the text names
BuiltSinkPath(sink_table, base_path, layer) ==
    IF ~Truthy(sink_table) THEN None
    ELSE IF Contains(sink_table, ".")
    THEN base_path \o <<"/">> \o layer \o <<"/">> \o SplitHead(sink_table, ".") \o <<"/">>
           \o SplitTail(sink_table, ".")
    ELSE base_path \o <<"/">> \o layer \o <<"/", "d", "e", "f", "a", "u", "l", "t", "/">> \o sink_table

\* BuiltDraft without the default of line 505: a text that names no sink table
\* gives a delta sink with neither table nor path
BuiltDraftWithoutSinkDefault(hd, src_table, sink_table, base_path, layer, creds) ==
    IF ~Truthy(hd.host) \/ ~Truthy(src_table) THEN [EmptyDraft EXCEPT !.kind = "none"]
    ELSE [EmptyDraft EXCEPT
            !.job_name = <<"i", "n", "g", "e", "s", "t", "_">> \o Replace(OrElse(sink_table, src_table), ".", "_"),
            !.source = [NoSource("dict") EXCEPT
                !.type = <<"p", "o", "s", "t", "g", "r", "e", "s">>,
                !.jdbc_url = <<"j", "d", "b", "c", ":", "p", "o", "s", "t", "g", "r", "e", "s", "q", "l", ":", "/", "/">> \o hd.host \o <<":">> \o IntStr(hd.port)
                    \o <<"/">> \o OrElse(hd.db, DEFAULT_POSTGRES_DB),
                !.table = src_table,
                !.frequency = <<"d", "a", "i", "l", "y">>,
                !.options = [NoOptions("dict") EXCEPT
                    !.user = creds.user, !.password = creds.password]],
            !.transformations = NoTransformations("dict"),
            !.sink = [NoSink("dict") EXCEPT
                !.type = <<"d", "e", "l", "t", "a">>,
                !.table = sink_table,
                !.path = BuiltSinkPath(sink_table, base_path, layer),
                !.layer = layer,
                !.mode = <<"a", "p", "p", "e", "n", "d">>]]

\* lines 486-511
BuiltDraft(hd, src_table, sink_table, base_path, layer, creds) ==
    IF ~Truthy(hd.host) \/ ~Truthy(src_table) THEN [EmptyDraft EXCEPT !.kind = "none"]
    ELSE [EmptyDraft EXCEPT
            !.job_name = <<"i", "n", "g", "e", "s", "t", "_">> \o Replace(OrElse(sink_table, src_table), ".", "_"),
            !.source = [NoSource("dict") EXCEPT
                !.type = <<"p", "o", "s", "t", "g", "r", "e", "s">>,
                !.jdbc_url = <<"j", "d", "b", "c", ":", "p", "o", "s", "t", "g", "r", "e", "s", "q", "l", ":", "/", "/">> \o hd.host \o <<":">> \o IntStr(hd.port)
                    \o <<"/">> \o OrElse(hd.db, DEFAULT_POSTGRES_DB),
                !.table = src_table,
                !.frequency = <<"d", "a", "i", "l", "y">>,
                !.options = [NoOptions("dict") EXCEPT
                    !.user = creds.user, !.password = creds.password]],
            !.transformations = NoTransformations("dict"),
            !.sink = [NoSink("dict") EXCEPT
                !.type = <<"d", "e", "l", "t", "a">>,
                !.table = OrElse(sink_table, <<"d", "e", "f", "a", "u", "l", "t", ".">> \o src_table),
                !.path = BuiltSinkPath(sink_table, base_path, layer),
                !.layer = layer,
                !.mode = <<"a", "p", "p", "e", "n", "d">>]]

_build_from_text(text) ==
    BuiltDraft(_parse_host_db(text), _parse_source_table(text), _parse_sink_table(text),
               OrElse(_parse_uc_path(text), DEFAULT_UC_BASE_PATH),
               OrElse(_parse_layer(text), DEFAULT_LAYER),
               _extract_inline_credentials(text))

(***************************************************************************)
(* parse_request lines 95-99: credential injection                         *)
(***************************************************************************)
\* Updated with dict.setdefault in place of dict.update: a value of the draft stays
UpdatedIfUnset(config, credentials) ==
    [config EXCEPT
        !.source.options.user = IF @ = Absent THEN credentials.user ELSE @,
        !.source.options.password = IF @ = Absent THEN credentials.password ELSE @]

\* dict.update(credentials): the keys the text gave replace the option's value
Updated(config, credentials) ==
    [config EXCEPT
        !.source.options.user = IF credentials.user # Absent THEN credentials.user ELSE @,
        !.source.options.password =
            IF credentials.password # Absent THEN credentials.password ELSE @]

InjectCredentials(config, text) == Updated(config, _extract_inline_credentials(text))

(***************************************************************************)
(* NLUParser._augment_from_text                                            *)
(***************************************************************************)
\* lines 311-322: raises when a postgres source has neither URL nor host
AugmentRaises(config, text) ==
    /\ config.source.type = <<"p", "o", "s", "t", "g", "r", "e", "s">>
    /\ ~Truthy(config.source.jdbc_url)
    /\ ~Truthy(_parse_host_db(text).host)

\* lines 311-317
AugmentedUrl(source, hd) ==
    IF source.type = <<"p", "o", "s", "t", "g", "r", "e", "s">> /\ ~Truthy(source.jdbc_url) /\ Truthy(hd.host)
    THEN <<"j", "d", "b", "c", ":", "p", "o", "s", "t", "g", "r", "e", "s", "q", "l", ":", "/", "/">> \o hd.host \o <<":">> \o IntStr(hd.port) \o <<"/">> \o hd.db
    ELSE source.jdbc_url

AugmentJdbcUrl(source, text) == AugmentedUrl(source, _parse_host_db(text))

\* lines 324-336
AugmentedTable(sink, sink_table) ==
    IF ~Truthy(sink.table) /\ Truthy(sink_table)
    THEN IF Contains(sink_table, ".")
         THEN [sink EXCEPT !.database = SplitHead(sink_table, "."),
                           !.table = SplitTail(sink_table, ".")]
         ELSE [sink EXCEPT !.table = sink_table]
    ELSE sink

AugmentSinkTable(sink, text) == AugmentedTable(sink, _parse_sink_table(text))

\* lines 338-341
AugmentCatalog(sink, default_unity_catalog) ==
    IF ~Truthy(sink.catalog) /\ Truthy(default_unity_catalog)
    THEN [sink EXCEPT !.catalog = default_unity_catalog] ELSE sink

\* lines 343-351
AugmentSinkPath(sink, text) ==
    IF ~Truthy(sink.path)
    THEN [sink EXCEPT
            !.path = OrElse(_parse_uc_path(text), DEFAULT_UC_BASE_PATH) \o <<"/">>
                       \o OrElse(sink.layer, DEFAULT_LAYER) \o <<"/">>
                       \o OrElse(sink.database, <<"d", "e", "f", "a", "u", "l", "t">>) \o <<"/">>
                       \o OrElse(sink.table, <<"u", "n", "k", "n", "o", "w", "n">>),
            !.layer = OrElse(sink.layer, DEFAULT_LAYER)]
    ELSE sink

\* lines 353-355
AugmentSinkType(sink) == IF ~Truthy(sink.type) THEN [sink EXCEPT !.type = <<"d", "e", "l", "t", "a">>] ELSE sink

_augment_from_text(config, text, default_unity_catalog) ==
    [config EXCEPT
        !.source.jdbc_url = AugmentJdbcUrl(config.source, text),
        !.sink = AugmentSinkType(AugmentSinkPath(
                    AugmentCatalog(AugmentSinkTable(@, text), default_unity_catalog), text))]

(***************************************************************************)
(* The requests checked: the end-to-end scenario of the specification, a   *)
(* request whose text is the scenario text and whose draft is {}, varied   *)
(* in at most MaxEdits places; a place is a clause of the text, a key of   *)
(* the draft, the shape of the LLM's reply or the default catalog.         *)
(***************************************************************************)
MaxEdits == 3

\* the clauses of the text; the first variant of each is the scenario's
TextClauses == <<
    <<<<"U+4ECE", "p", "g", "s", "q", "l", "U+62BD", "U+53D6", "U+6570", "U+636E", "U+FF0C">>, <<"U+4ECE", "m", "y", "s", "q", "l", "U+62BD", "U+53D6", "U+6570", "U+636E", "U+FF0C">>, <<>>>>,
    <<<<"U+6570", "U+636E", "U+5E93", "U+4E3A", "s", "a", "l", "e", "s", "U+FF0C">>, <<>>>>,
    <<<<"U+8868", "U+540D", "U+4E3A", "v", "w", "t", "a", "b", "l", "e", "1", "U+FF0C">>, <<>>>>,
    <<<<"U+7528", "U+6237", "U+540D", "U+FF1A", "a", "l", "i", "c", "e", "U+FF0C">>, <<>>>>,
    <<<<"U+5BC6", "U+7801", "U+FF1A", "s", "e", "c", "r", "e", "t", "U+FF0C">>, <<>>>>,
    <<<<"U+5730", "U+5740", "U+4E3A", "d", "b", ".", "e", "x", "a", "m", "p", "l", "e", ".", "c", "o", "m", "U+3002">>, <<"U+5730", "U+5740", "U+4E3A", "d", "b", ".", "e", "x", "a", "m", "p", "l", "e", ".", "c", "o", "m", ":", "6", "4", "3", "2", "U+3002">>, <<>>>>,
    <<<<"U+62BD", "U+53D6", "U+5230", "t", "e", "s", "t", ".", "o", "u", "t", "1", "U+7684", "U+8868", "U+4E2D">>, <<"U+5199", "U+5165", "o", "u", "t", "1", "U+8868">>, <<>>>> >>

ScenarioChoice == [i \in 1..Len(TextClauses) |-> 1]

RECURSIVE ComposeFrom(_, _)
ComposeFrom(choice, i) ==
    IF i > Len(TextClauses) THEN <<>>
    ELSE TextClauses[i][choice[i]] \o ComposeFrom(choice, i + 1)

TextOf(choice) == ComposeFrom(choice, 1)

ScenarioText == TextOf(ScenarioChoice)

\* the values a reply may give a key of the draft
DraftEdits == {
    [f |-> "job_name", v |-> <<"m", "y", "j", "o", "b">>],
    [f |-> "source.type", v |-> <<"p", "o", "s", "t", "g", "r", "e", "s">>],
    [f |-> "source.type", v |-> <<"m", "y", "s", "q", "l">>],
    [f |-> "source.type", v |-> <<"s", "q", "l", "s", "e", "r", "v", "e", "r">>],
    [f |-> "source.type", v |-> <<"o", "r", "a", "c", "l", "e">>],
    [f |-> "source.jdbc_url", v |-> <<"j", "d", "b", "c", ":", "m", "y", "s", "q", "l", ":", "/", "/", "h", "1", ":", "3", "3", "0", "6", "/", "c", "r", "m">>],
    [f |-> "source.table", v |-> <<"o", "r", "d", "e", "r", "s">>],
    [f |-> "source.frequency", v |-> <<"h", "o", "u", "r", "l", "y">>],
    [f |-> "source.frequency", v |-> <<"s", "t", "r", "e", "a", "m", "i", "n", "g">>],
    [f |-> "source.options", v |-> None],
    [f |-> "source.options.user", v |-> <<"c", "a", "r", "o", "l">>],
    [f |-> "source.options.password", v |-> <<"p", "w", "9">>],
    [f |-> "source.options.fetchsize", v |-> <<"1", "0", "0">>],
    [f |-> "sink.type", v |-> <<"j", "d", "b", "c">>],
    [f |-> "sink.layer", v |-> <<"g", "o", "l", "d">>],
    [f |-> "sink.mode", v |-> None],
    [f |-> "sink.database", v |-> <<"d", "w">>],
    [f |-> "sink.table", v |-> <<"f", "a", "c", "t">>],
    [f |-> "sink.table", v |-> <<"d", "w", ".", "f", "a", "c", "t">>],
    [f |-> "sink.path", v |-> <<"a", "b", "f", "s", "s", ":", "/", "/", "x", "/", "y">>],
    [f |-> "sink.options.path", v |-> <<"/", "p">>],
    [f |-> "transformations", v |-> None],
    [f |-> "transformations.aggregate.metrics", v |-> <<"[", "]">>],
    [f |-> "transformations.aggregate.metrics", v |-> <<"{", "}">>],
    [f |-> "validation_error", v |-> <<"m", "i", "s", "s", "i", "n", "g", "_", "f", "i", "e", "l", "d", "s">>] }

\* the list a reply with a validation_error marker carries
LlmMissing == <<<<"h", "o", "s", "t", "n", "a", "m", "e">>, <<"p", "a", "s", "s", "w", "o", "r", "d">>>>

DictSource(d) == IF d.source.kind = "dict" THEN d.source ELSE NoSource("dict")
DictSink(d) == IF d.sink.kind = "dict" THEN d.sink ELSE NoSink("dict")
DictOptions(o) == IF o.kind = "dict" THEN o ELSE NoOptions("dict")
DictSinkOptions(o) == IF o.kind = "dict" THEN o ELSE NoSinkOptions("dict")

\* the key is not yet in the draft
Unset(d, f) ==
    CASE f = "job_name" -> d.job_name = Absent
      [] f = "source.type" -> d.source.type = Absent
      [] f = "source.jdbc_url" -> d.source.jdbc_url = Absent
      [] f = "source.table" -> d.source.table = Absent
      [] f = "source.frequency" -> d.source.frequency = Absent
      [] f = "source.options" -> d.source.options.kind = "absent"
      [] f = "source.options.user" ->
            d.source.options.kind \in {"absent", "dict"} /\ d.source.options.user = Absent
      [] f = "source.options.password" ->
            d.source.options.kind \in {"absent", "dict"} /\ d.source.options.password = Absent
      [] f = "source.options.fetchsize" ->
            d.source.options.kind \in {"absent", "dict"} /\ d.source.options.fetchsize = Absent
      [] f = "sink.type" -> d.sink.type = Absent
      [] f = "sink.layer" -> d.sink.layer = Absent
      [] f = "sink.mode" -> d.sink.mode = Absent
      [] f = "sink.database" -> d.sink.database = Absent
      [] f = "sink.table" -> d.sink.table = Absent
      [] f = "sink.path" -> d.sink.path = Absent
      [] f = "sink.options.path" -> d.sink.options.path = Absent
      [] f = "transformations" -> d.transformations.kind = "absent"
      [] f = "transformations.aggregate.metrics" -> d.transformations.kind = "absent"
      [] f = "validation_error" -> d.validation_error = Absent

\* the draft with one more key
WithKey(d, f, v) ==
    CASE f = "job_name" -> [d EXCEPT !.job_name = v]
      [] f = "source.type" -> [d EXCEPT !.source = [DictSource(d) EXCEPT !.type = v]]
      [] f = "source.jdbc_url" -> [d EXCEPT !.source = [DictSource(d) EXCEPT !.jdbc_url = v]]
      [] f = "source.table" -> [d EXCEPT !.source = [DictSource(d) EXCEPT !.table = v]]
      [] f = "source.frequency" -> [d EXCEPT !.source = [DictSource(d) EXCEPT !.frequency = v]]
      [] f = "source.options" ->
            [d EXCEPT !.source = [DictSource(d) EXCEPT !.options = NoOptions("none")]]
      [] f = "source.options.user" ->
            [d EXCEPT !.source = [DictSource(d) EXCEPT
                !.options = [DictOptions(d.source.options) EXCEPT !.user = v]]]
      [] f = "source.options.password" ->
            [d EXCEPT !.source = [DictSource(d) EXCEPT
                !.options = [DictOptions(d.source.options) EXCEPT !.password = v]]]
      [] f = "source.options.fetchsize" ->
            [d EXCEPT !.source = [DictSource(d) EXCEPT
                !.options = [DictOptions(d.source.options) EXCEPT !.fetchsize = v]]]
      [] f = "sink.type" -> [d EXCEPT !.sink = [DictSink(d) EXCEPT !.type = v]]
      [] f = "sink.layer" -> [d EXCEPT !.sink = [DictSink(d) EXCEPT !.layer = v]]
      [] f = "sink.mode" -> [d EXCEPT !.sink = [DictSink(d) EXCEPT !.mode = v]]
      [] f = "sink.database" -> [d EXCEPT !.sink = [DictSink(d) EXCEPT !.database = v]]
      [] f = "sink.table" -> [d EXCEPT !.sink = [DictSink(d) EXCEPT !.table = v]]
      [] f = "sink.path" -> [d EXCEPT !.sink = [DictSink(d) EXCEPT !.path = v]]
      [] f = "sink.options.path" ->
            [d EXCEPT !.sink = [DictSink(d) EXCEPT
                !.options = [DictSinkOptions(d.sink.options) EXCEPT !.path = v]]]
      [] f = "transformations" -> [d EXCEPT !.transformations = NoTransformations("other")]
      [] f = "transformations.aggregate.metrics" ->
            [d EXCEPT !.transformations = [NoTransformations("dict") EXCEPT
                !.aggregate = [kind |-> "dict",
                               metrics |-> IF v = <<"[", "]">> THEN "list" ELSE "empty"]]]
      [] f = "validation_error" -> [d EXCEPT !.validation_error = v, !.missing = LlmMissing]

\* what the LLM call does other than return a JSON object: it raises, returns
\* text that is no JSON, or returns JSON that is no object
OtherReplies == {[EmptyDraft EXCEPT !.kind = k] : k \in {"raise", "text", "list"}}

ScenarioInput ==
    [choice |-> ScenarioChoice, reply |-> EmptyDraft, default_unity_catalog |-> <<"u", "c", "_", "t", "a", "r", "h", "o", "n", "e">>]

Vary(inp) ==
    {[inp EXCEPT !.choice[i] = j] :
        i \in {k \in 1..Len(TextClauses) : inp.choice[k] = 1}, j \in 2..3}
    \cup {[inp EXCEPT !.reply = WithKey(@, e.f, e.v)] :
            e \in {x \in DraftEdits : inp.reply.kind = "dict" /\ Unset(inp.reply, x.f)}}
    \cup {[inp EXCEPT !.reply = r] : r \in {x \in OtherReplies : inp.reply = EmptyDraft}}
    \cup {[inp EXCEPT !.default_unity_catalog = None]}

RECURSIVE InputsWithin(_)
InputsWithin(n) ==
    IF n = 0 THEN {ScenarioInput}
    ELSE LET S == InputsWithin(n - 1)
         IN  S \cup {v \in UNION {Vary(inp) : inp \in S} :
                        \A i \in 1..Len(TextClauses) : v.choice[i] <= Len(TextClauses[i])}

\* the text of the segmentation example: English, source before sink
SegmentationText == <<"s", "o", "u", "r", "c", "e", " ", "t", "a", "b", "l", "e", " ", "o", "r", "d", "e", "r", "s", ",", " ", "w", "r", "i", "t", "e", " ", "t", "o", " ", "t", "e", "s", "t", ".", "p", "g", "s", "q", "l", "t", "e", "s", "t", "1">>

\* a text whose only sink keyword is "delta table"
DeltaTableText == <<"U+8868", "U+540D", "U+4E3A", "o", "r", "d", "e", "r", "s", "U+FF0C", "U+4FDD", "U+5B58", "U+4E3A", "d", "e", "l", "t", "a", " ", "t", "a", "b", "l", "e", " ", "t", "e", "s", "t", ".", "o", "u", "t", "1">>

\* a ready configuration a request may carry
ReadyConfig ==
    ParseObj([EmptyDraft EXCEPT
        !.job_name = <<"n", "i", "g", "h", "t", "l", "y">>,
        !.source = [NoSource("dict") EXCEPT
            !.type = <<"m", "y", "s", "q", "l">>, !.jdbc_url = <<"j", "d", "b", "c", ":", "m", "y", "s", "q", "l", ":", "/", "/", "h", "1", ":", "3", "3", "0", "6", "/", "c", "r", "m">>, !.table = <<"o", "r", "d", "e", "r", "s">>,
            !.options = [NoOptions("dict") EXCEPT !.user = <<"c", "a", "r", "o", "l">>]],
        !.sink = [NoSink("dict") EXCEPT !.type = <<"d", "e", "l", "t", "a">>, !.table = <<"f", "a", "c", "t">>]])

(***************************************************************************)
(* State: one parse_request call.                                          *)
(***************************************************************************)
VARIABLES
    request,                \* the JobRequest: natural_language, config
    default_unity_catalog,  \* self.settings.default_unity_catalog
    reply,                  \* what the LLM call of this request will do
    raw_config,             \* the draft
    config,                 \* the typed configuration
    pc,                     \* the stage parse_request is at
    outcome,                \* what parse_request returned or raised
    trace,                  \* the stages executed so far
    suspended               \* the other invocation on this parser, between two of
                            \* its stages: its request, reply and locals

vars == <<request, default_unity_catalog, reply, raw_config, config, pc, outcome, trace,
         suspended>>

\* one invocation runs alone
NoCall == [pc |-> "absent"]

NoOutcome == [kind |-> "none", msg |-> "", fields |-> <<>>]
Raised(kind, msg, fields) == [kind |-> kind, msg |-> msg, fields |-> fields]
Returned == [kind |-> "config", msg |-> "", fields |-> <<>>]

Init ==
    /\ \/ \E inp \in InputsWithin(MaxEdits) :
            /\ request = [natural_language |-> TextOf(inp.choice), config |-> NoConfig]
            /\ reply = inp.reply
            /\ default_unity_catalog = inp.default_unity_catalog
       \/ /\ request \in [natural_language : {None, <<>>, ScenarioText, SegmentationText,
                                              DeltaTableText},
                          config : {NoConfig, ReadyConfig}]
          /\ request.config = NoConfig => request.natural_language # ScenarioText
          /\ reply = EmptyDraft
          /\ default_unity_catalog = <<"u", "c", "_", "t", "a", "r", "h", "o", "n", "e">>
    /\ raw_config = EmptyDraft
    /\ config = NoConfig
    /\ pc = "start"
    /\ outcome = NoOutcome
    /\ trace = <<>>
    /\ suspended = NoCall

Fail(kind, msg, fields) ==
    /\ pc' = "error"
    /\ outcome' = Raised(kind, msg, fields)

\* Enter with the two tests of lines 30 and 34 in the other order: a text wins over
\* the configuration the request carries
EnterTextFirst ==
    /\ pc = "start"
    /\ trace' = Append(trace, "enter")
    /\ IF Truthy(request.natural_language)
       THEN pc' = "llm" /\ outcome' = outcome /\ config' = config
       ELSE IF request.config # NoConfig
       THEN pc' = "done" /\ config' = request.config /\ outcome' = Returned
       ELSE /\ Fail("ValueError", "Either natural_language or config must be provided", <<>>)
            /\ config' = config
    /\ UNCHANGED <<suspended, request, default_unity_catalog, reply, raw_config>>

\* Enter without the test of line 34: a request without text goes on to the LLM
EnterWithoutTextTest ==
    /\ pc = "start"
    /\ trace' = Append(trace, "enter")
    /\ IF request.config # NoConfig
       THEN pc' = "done" /\ config' = request.config /\ outcome' = Returned
       ELSE pc' = "llm" /\ outcome' = outcome /\ config' = config
    /\ UNCHANGED <<suspended, request, default_unity_catalog, reply, raw_config>>

\* lines 30-35
Enter ==
    /\ pc = "start"
    /\ trace' = Append(trace, "enter")
    /\ IF request.config # NoConfig
       THEN /\ pc' = "done"
            /\ config' = request.config
            /\ outcome' = Returned
       ELSE /\ IF ~Truthy(request.natural_language)
               THEN Fail("ValueError", "Either natural_language or config must be provided", <<>>)
               ELSE pc' = "llm" /\ outcome' = outcome
            /\ config' = config
    /\ UNCHANGED <<suspended, request, default_unity_catalog, reply, raw_config>>

\* line 37, LLMClient.nl_to_config: an exception of chat_completion is not
\* caught; a reply that json.loads rejects comes back as {"_raw": content}
NlToConfig ==
    /\ pc = "llm"
    /\ trace' = Append(trace, "llm")
    /\ IF reply.kind = "raise"
       THEN /\ Fail("LLMCallError", "chat_completion raised", <<>>)
            /\ raw_config' = raw_config
       ELSE /\ raw_config' = IF reply.kind = "text"
                             THEN [EmptyDraft EXCEPT !._raw = <<"s", "o", "r", "r", "y">>]
                             ELSE reply
            /\ pc' = "check"
            /\ outcome' = outcome
    /\ UNCHANGED <<suspended, request, default_unity_catalog, reply, config>>

\* lines 47-52 and 65-68: the setdefault calls, the placeholder job name
WithTopLevelKeys(raw) ==
    [raw EXCEPT
        !.source = IF @.kind = "absent" THEN NoSource("dict") ELSE @,
        !.sink = IF @.kind = "absent" THEN NoSink("dict") ELSE @,
        !.transformations = IF @.kind # "dict" THEN NoTransformations("dict") ELSE @,
        !.job_name = IF Truthy(@) THEN @ ELSE DEFAULT_JOB_NAME]

\* CheckDraft without lines 55-59: the validation_error marker is not looked at
CheckDraftWithoutMarker ==
    /\ pc = "check"
    /\ trace' = Append(trace, "check")
    /\ IF raw_config.kind # "dict" \/ raw_config._raw # Absent
       THEN /\ Fail("ValueError", "LLM could not produce a valid ingestion plan from the prompt", <<>>)
            /\ raw_config' = raw_config
       ELSE /\ raw_config' = WithTopLevelKeys(raw_config)
            /\ IF raw_config'.source.kind # "dict"
               THEN Fail("ValueError", "source section is invalid", <<>>)
               ELSE IF raw_config'.sink.kind # "dict"
               THEN Fail("ValueError", "sink section is invalid", <<>>)
               ELSE pc' = "prefill" /\ outcome' = outcome
    /\ UNCHANGED <<suspended, request, default_unity_catalog, reply, config>>

\* lines 40-68
CheckDraft ==
    /\ pc = "check"
    /\ trace' = Append(trace, "check")
    /\ IF raw_config.kind # "dict" \/ raw_config._raw # Absent
       THEN /\ Fail("ValueError", "LLM could not produce a valid ingestion plan from the prompt", <<>>)
            /\ raw_config' = raw_config
       ELSE /\ raw_config' = WithTopLevelKeys(raw_config)
            /\ IF raw_config.validation_error # Absent
               THEN Fail("ValueError", "missing, as the LLM reports", raw_config.missing)
               ELSE IF raw_config'.source.kind # "dict"
               THEN Fail("ValueError", "source section is invalid", <<>>)
               ELSE IF raw_config'.sink.kind # "dict"
               THEN Fail("ValueError", "sink section is invalid", <<>>)
               ELSE pc' = "prefill" /\ outcome' = outcome
    /\ UNCHANGED <<suspended, request, default_unity_catalog, reply, config>>

\* line 74
Prefill ==
    /\ pc = "prefill"
    /\ trace' = Append(trace, "prefill")
    /\ raw_config' = _prefill_from_text(raw_config, request.natural_language)
    /\ pc' = "defaults"
    /\ UNCHANGED <<suspended, request, default_unity_catalog, reply, config, outcome>>

\* line 75
FillDefaults ==
    /\ pc = "defaults"
    /\ trace' = Append(trace, "defaults")
    /\ raw_config' = _fill_jdbc_and_sink_defaults(raw_config, request.natural_language)
    /\ pc' = "validate"
    /\ UNCHANGED <<suspended, request, default_unity_catalog, reply, config, outcome>>

\* lines 156-159: a non-empty list "missing" is raised as a ValueError
RaiseIfMissing(missing) ==
    IF missing # <<>>
    THEN Fail("ValueError", "missing, as the Validator reports", missing)
    ELSE pc' = "normalize" /\ outcome' = outcome

\* line 78, _validate_required_fields
Validate ==
    /\ pc = "validate"
    /\ trace' = Append(trace, "validate")
    /\ IF OptionsLookupRaises(raw_config, request.natural_language)
       THEN Fail("AttributeError", "'NoneType' object has no attribute 'get'", <<>>)
       ELSE RaiseIfMissing(MissingFields(raw_config, request.natural_language))
    /\ UNCHANGED <<suspended, request, default_unity_catalog, reply, raw_config, config>>

\* line 80
Normalize ==
    /\ pc = "normalize"
    /\ trace' = Append(trace, "normalize")
    /\ raw_config' = _normalize_transformations(raw_config)
    /\ pc' = "construct"
    /\ UNCHANGED <<suspended, request, default_unity_catalog, reply, config, outcome>>

\* lines 82-85
Construct ==
    /\ pc = "construct"
    /\ trace' = Append(trace, "construct")
    /\ IF ParseObjRaises(raw_config)
       THEN pc' = "fallback" /\ config' = config
       ELSE pc' = "inject" /\ config' = ParseObj(raw_config)
    /\ UNCHANGED <<suspended, request, default_unity_catalog, reply, raw_config, outcome>>

\* lines 88-94: the draft built from the text is validated, or the call fails
UseFallback(fallback) ==
    IF fallback.kind = "dict"
    THEN IF ParseObjRaises(fallback)
         THEN Fail("ValidationError", "the fallback failed validation", <<>>)
              /\ config' = config
         ELSE pc' = "inject" /\ config' = ParseObj(fallback) /\ outcome' = outcome
    ELSE /\ Fail("ValueError", "LLM could not produce a valid ingestion plan from the prompt", <<>>)
         /\ config' = config

\* Fallback without the test "if fallback" of line 88: it raises whatever the text gives
FallbackAlwaysRaises ==
    /\ pc = "fallback"
    /\ trace' = Append(trace, "fallback")
    /\ Fail("ValueError", "LLM could not produce a valid ingestion plan from the prompt", <<>>)
    /\ UNCHANGED <<suspended, request, default_unity_catalog, reply, raw_config, config>>

\* lines 86-94
Fallback ==
    /\ pc = "fallback"
    /\ trace' = Append(trace, "fallback")
    /\ UseFallback(_build_from_text(request.natural_language))
    /\ UNCHANGED <<suspended, request, default_unity_catalog, reply, raw_config>>

\* lines 95-99
Inject ==
    /\ pc = "inject"
    /\ trace' = Append(trace, "inject")
    /\ config' = InjectCredentials(config, request.natural_language)
    /\ pc' = "augment"
    /\ UNCHANGED <<suspended, request, default_unity_catalog, reply, raw_config, outcome>>

\* lines 101-105
Augment ==
    /\ pc = "augment"
    /\ trace' = Append(trace, "augment")
    /\ IF AugmentRaises(config, request.natural_language)
       THEN /\ Fail("ValueError", "missing JDBC connection info", <<>>)
            /\ config' = config
       ELSE /\ config' = _augment_from_text(config, request.natural_language,
                                            default_unity_catalog)
            /\ pc' = "done"
            /\ outcome' = Returned
    /\ UNCHANGED <<suspended, request, default_unity_catalog, reply, raw_config>>

Next ==
    \/ Enter
    \/ NlToConfig
    \/ CheckDraft
    \/ Prefill
    \/ FillDefaults
    \/ Validate
    \/ Normalize
    \/ Construct
    \/ Fallback
    \/ Inject
    \/ Augment

Spec == Init /\ [][Next]_vars


(***************************************************************************)
(* Properties of parse_request                                             *)
(***************************************************************************)
nl == request.natural_language

\* the stage ran in this call, and how often
Ran(stage) == \E i \in 1..Len(trace) : trace[i] = stage
Times(stage) == Cardinality({i \in 1..Len(trace) : trace[i] = stage})

\* parse_request returned or raised
Finished == pc \in {"done", "error"}

\* the call returned the configuration built from the draft fallback
ReturnsBuilt(fallback) ==
    /\ pc = "done"
    /\ outcome = Returned
    /\ config = _augment_from_text(InjectCredentials(ParseObj(fallback), nl), nl,
                                   default_unity_catalog)

\* C1: when the draft passed validation and typed construction of it failed,
\* _build_from_text runs exactly once on the request's text; the call returns the
\* configuration built from its result, after credential injection and
\* augmentation, or raises when it gives None; no stage of the draft runs twice.
C1_FallbackOnce ==
    /\ \A stage \in {"llm", "prefill", "defaults", "validate", "normalize", "construct",
                     "fallback"} : Times(stage) <= 1
    /\ Ran("fallback") => Ran("validate") /\ Ran("construct") /\ ParseObjRaises(raw_config)
    /\ (Ran("construct") /\ ParseObjRaises(raw_config) /\ pc # "fallback") => Ran("fallback")
    /\ (Finished /\ Ran("fallback")) =>
          IF _build_from_text(nl).kind = "dict"
          THEN ReturnsBuilt(_build_from_text(nl))
          ELSE pc = "error" /\ outcome.kind = "ValueError"

\* a draft with an unknown source type, rebuilt from the text and returned
C1_Witness ==
    /\ pc = "done"
    /\ Ran("fallback")
    /\ raw_config.source.type = <<"o", "r", "a", "c", "l", "e">>
    /\ config.source.type = <<"p", "o", "s", "t", "g", "r", "e", "s">>
    /\ config.source.table = <<"v", "w", "t", "a", "b", "l", "e", "1">>

\* the text gives what a rebuild needs: host, source table, credentials, sink table
Resolvable(text, creds) ==
    /\ _build_from_text(text).kind = "dict"
    /\ Truthy(creds.user) /\ Truthy(creds.password)
    /\ Truthy(_parse_sink_table(text))

\* C2: a reply that is no JSON, or JSON that is no object, leads to the rebuild from
\* the text, so a text with host, source table, credentials and sink table yields a
\* configuration.
C2_UnusableReplyRebuilt ==
    (Finished /\ reply.kind \in {"text", "list"}
       /\ Resolvable(nl, _extract_inline_credentials(nl)))
        => outcome.kind = "config"

\* C3: a failure of the LLM call is not the outcome of parse_request while the text
\* allows a rebuild.
C3_CallFailureRebuilt ==
    (Finished /\ reply.kind = "raise" /\ _build_from_text(nl).kind = "dict")
        => outcome.kind # "LLMCallError"

\* C4: when the draft, after pre-fill and defaulting, lacks a required field, the
\* call raises the error that lists exactly the labels of the missing fields, and
\* neither construction, fallback, injection nor augmentation runs.
C4_MissingFieldsRaised ==
    (Ran("validate") /\ MissingFields(raw_config, nl) # <<>>)
        => /\ pc = "error"
           /\ outcome.kind = "ValueError"
           /\ outcome.fields = MissingFields(raw_config, nl)
           /\ \A stage \in {"normalize", "construct", "fallback", "inject", "augment"} :
                 ~Ran(stage)

\* a non-empty value is the same after the step
Kept(old, new) == Truthy(old) => new = old

\* C5: _prefill_from_text replaces no non-empty field of the draft: source table,
\* source type, frequency, sink type, layer, mode, sink database, sink table, sink
\* path, job name.
C5_PrefillKeeps ==
    [][pc = "prefill" =>
        /\ Kept(raw_config.source.table, raw_config'.source.table)
        /\ Kept(raw_config.source.type, raw_config'.source.type)
        /\ Kept(raw_config.source.frequency, raw_config'.source.frequency)
        /\ Kept(raw_config.sink.type, raw_config'.sink.type)
        /\ Kept(raw_config.sink.layer, raw_config'.sink.layer)
        /\ Kept(raw_config.sink.mode, raw_config'.sink.mode)
        /\ Kept(raw_config.sink.database, raw_config'.sink.database)
        /\ Kept(raw_config.sink.table, raw_config'.sink.table)
        /\ Kept(raw_config.sink.path, raw_config'.sink.path)
        /\ Kept(raw_config.job_name, raw_config'.job_name)]_vars

\* C6 as stated: _fill_jdbc_and_sink_defaults changes no non-empty JDBC URL, sink
\* database, sink table or sink path.
C6_DefaultsKeep ==
    [][pc = "defaults" =>
        /\ Kept(raw_config.source.jdbc_url, raw_config'.source.jdbc_url)
        /\ Kept(raw_config.sink.database, raw_config'.sink.database)
        /\ Kept(raw_config.sink.table, raw_config'.sink.table)
        /\ Kept(raw_config.sink.path, raw_config'.sink.path)]_vars

\* the URL of the host, port and database the text names
UrlOfText(hd) ==
    <<"j", "d", "b", "c", ":", "p", "o", "s", "t", "g", "r", "e", "s", "q", "l", ":", "/", "/">> \o hd.host \o <<":">> \o IntStr(hd.port) \o <<"/">> \o hd.db

\* a non-empty JDBC URL after defaulting: rebuilt for a postgres source with a host
\* in the text, kept otherwise
UrlAfterDefaults(source, new, hd) ==
    Truthy(source.jdbc_url) =>
        IF source.type = <<"p", "o", "s", "t", "g", "r", "e", "s">> /\ Truthy(hd.host)
        THEN new.jdbc_url = UrlOfText(hd)
        ELSE new.jdbc_url = source.jdbc_url

\* a non-empty sink table after defaulting: split at its first dot when the sink has
\* no database, kept otherwise
TableAfterDefaults(sink, new) ==
    Truthy(sink.table) =>
        IF Contains(sink.table, ".") /\ ~Truthy(sink.database)
        THEN new.database = SplitHead(sink.table, ".") /\ new.table = SplitTail(sink.table, ".")
        ELSE new.table = sink.table

\* C6, amended: _fill_jdbc_and_sink_defaults keeps a non-empty sink database and sink
\* path; it keeps a non-empty sink table unless the table has a dot and the sink no
\* database, and then splits it into database and table; it keeps a non-empty JDBC
\* URL unless the source is postgres and the text names a host, and then replaces it
\* by the URL of the text's host, port and database.  _augment_from_text changes no
\* non-empty JDBC URL and no non-empty field of the sink.
C6_DefaultsKeepExceptUrl ==
    [][/\ pc = "defaults" =>
            /\ Kept(raw_config.sink.database, raw_config'.sink.database)
            /\ Kept(raw_config.sink.path, raw_config'.sink.path)
            /\ TableAfterDefaults(raw_config.sink, raw_config'.sink)
            /\ UrlAfterDefaults(raw_config.source, raw_config'.source, _parse_host_db(nl))
       /\ pc = "augment" =>
            /\ Kept(config.source.jdbc_url, config'.source.jdbc_url)
            /\ \A f \in {"type", "path", "catalog", "database", "table", "mode", "layer"} :
                  Kept(config.sink[f], config'.sink[f])]_vars

\* the draft's JDBC URL of another server, replaced by the URL of the text's host
C6_Witness ==
    /\ pc = "validate"
    /\ reply.source.jdbc_url = <<"j", "d", "b", "c", ":", "m", "y", "s", "q", "l", ":", "/", "/", "h", "1", ":", "3", "3", "0", "6", "/", "c", "r", "m">>
    /\ raw_config.source.jdbc_url = <<"j", "d", "b", "c", ":", "p", "o", "s", "t", "g", "r", "e", "s", "q", "l", ":", "/", "/", "d", "b", ".", "e", "x", "a", "m", "p", "l", "e", ".", "c", "o", "m", ":", "5", "4", "3", "2", "/", "s", "a", "l", "e", "s">>

\* C7: a request with a configuration gets exactly that configuration back, with or
\* without a text, and no other stage than the test of line 30 runs.
C7_ConfigReturnedUnchanged ==
    (request.config # NoConfig /\ pc # "start")
        => /\ pc = "done"
           /\ outcome = Returned
           /\ config = request.config
           /\ trace = <<"enter">>
           /\ raw_config = EmptyDraft

\* a request with both a text and a configuration, returned
C7_Witness ==
    /\ pc = "done"
    /\ request.config = ReadyConfig
    /\ request.natural_language = ScenarioText
    /\ config = ReadyConfig

\* C8: a draft with a validation_error marker makes the call raise the error that
\* lists exactly the entries of the draft's "missing", and pre-fill, validation,
\* construction and fallback do not run.
C8_MarkerRaises ==
    (Ran("check") /\ reply.kind = "dict" /\ reply.validation_error # Absent)
        => /\ pc = "error"
           /\ outcome.kind = "ValueError"
           /\ outcome.fields = reply.missing
           /\ trace = <<"enter", "llm", "check">>

\* a draft that has the marker and a source table: the error lists the LLM's entries
C8_Witness ==
    /\ pc = "error"
    /\ reply.validation_error = <<"m", "i", "s", "s", "i", "n", "g", "_", "f", "i", "e", "l", "d", "s">>
    /\ reply.source.table = <<"o", "r", "d", "e", "r", "s">>
    /\ outcome.fields = LlmMissing

\* the options of the source other than user and password
OtherOptions(o) == [o EXCEPT !.user = Absent, !.password = Absent]

\* C9: after injection user and password are the values the text gives, whatever
\* the draft had; an option the text does not give, every other option, and every
\* other field of the configuration are as before.
C9_InjectionOverrides ==
    [][pc = "inject" =>
        /\ _extract_inline_credentials(nl).user # Absent
              => config'.source.options.user = _extract_inline_credentials(nl).user
        /\ _extract_inline_credentials(nl).password # Absent
              => config'.source.options.password = _extract_inline_credentials(nl).password
        /\ _extract_inline_credentials(nl).user = Absent
              => config'.source.options.user = config.source.options.user
        /\ _extract_inline_credentials(nl).password = Absent
              => config'.source.options.password = config.source.options.password
        /\ OtherOptions(config'.source.options) = OtherOptions(config.source.options)
        /\ [config' EXCEPT !.source.options = config.source.options] = config]_vars

\* the draft's user carol, replaced by the text's alice
C9_Witness ==
    /\ pc = "augment"
    /\ raw_config.source.options.user = <<"c", "a", "r", "o", "l">>
    /\ config.source.options.user = <<"a", "l", "i", "c", "e">>
    /\ config.source.options.password = <<"s", "e", "c", "r", "e", "t">>

\* the drafts that say nothing against the scenario text
ScenarioDrafts == {EmptyDraft, WithKey(EmptyDraft, "source.type", <<"p", "o", "s", "t", "g", "r", "e", "s">>)}

\* C10: the scenario text with a draft that says nothing against it gives source
\* type postgres, the URL of db.example.com:5432/sales, source table
\* public.vwtable1, user alice, password secret, sink database test, sink table
\* out1, sink type delta, layer bronze.
C10_Scenario ==
    (Finished /\ request.config = NoConfig /\ nl = ScenarioText /\ reply \in ScenarioDrafts)
        => /\ outcome = Returned
           /\ config.source.type = <<"p", "o", "s", "t", "g", "r", "e", "s">>
           /\ config.source.jdbc_url = <<"j", "d", "b", "c", ":", "p", "o", "s", "t", "g", "r", "e", "s", "q", "l", ":", "/", "/", "d", "b", ".", "e", "x", "a", "m", "p", "l", "e", ".", "c", "o", "m", ":", "5", "4", "3", "2", "/", "s", "a", "l", "e", "s">>
           /\ config.source.table = <<"p", "u", "b", "l", "i", "c", ".", "v", "w", "t", "a", "b", "l", "e", "1">>
           /\ config.source.options.user = <<"a", "l", "i", "c", "e">>
           /\ config.source.options.password = <<"s", "e", "c", "r", "e", "t">>
           /\ config.sink.database = <<"t", "e", "s", "t">>
           /\ config.sink.table = <<"o", "u", "t", "1">>
           /\ config.sink.type = <<"d", "e", "l", "t", "a">>
           /\ config.sink.layer = <<"b", "r", "o", "n", "z", "e">>

\* the source table pre-fill starts from: the text's, else the draft's
NameGiven(source, text) == OrElse(_parse_source_table(text), source.table)

\* the name has no schema and the text names no schema for the source
BareName(name, text) ==
    /\ Truthy(name)
    /\ ~Contains(name, ".")
    /\ ~SearchI(SourceSchemaPattern, _get_source_segment(text)).found

\* the table of a bare name under the dialect's default schema
DialectTable(type, name, table) ==
    /\ type = <<"p", "o", "s", "t", "g", "r", "e", "s">> => table = <<"p", "u", "b", "l", "i", "c", ".">> \o name
    /\ type = <<"s", "q", "l", "s", "e", "r", "v", "e", "r">> => table = <<"d", "b", "o", ".">> \o name
    /\ type = <<"m", "y", "s", "q", "l">> => table = name

\* C11: after pre-fill, a source table given as a bare name is public.<name> when
\* the resulting source type is postgres, dbo.<name> when it is sqlserver, and the
\* name itself when it is mysql, whether the draft gave the type or the text did.
C11_DialectSchema ==
    [][(pc = "prefill" /\ BareName(NameGiven(raw_config.source, nl), nl))
        => DialectTable(raw_config'.source.type, NameGiven(raw_config.source, nl),
                        raw_config'.source.table)]_vars

\* the schema.table reference the sink rule matches in the text, or None
SinkReference(text) == SinkTableLoop(1, _get_sink_segment(text))

\* the sink's database and table are the two sides of the reference's first dot
SplitAs(sink, ref) ==
    /\ sink.database = SplitHead(ref, ".")
    /\ sink.table = SplitTail(ref, ".")

\* C12: for a text with a host and a schema.table sink reference, a configuration
\* returned from the text has the reference's schema as sink database and its table
\* as sink table, whether it was built from the draft or from the fallback.
C12_SinkSplit ==
    (pc = "done" /\ request.config = NoConfig /\ Truthy(_parse_host_db(nl).host)
       /\ SinkReference(nl) # None)
        => SplitAs(config.sink, SinkReference(nl))

(***************************************************************************)
(* Typed configurations on their own: a draft drawn from the shapes        *)
(* IngestionJobConfig distinguishes is constructed; the configuration is   *)
(* then given back to _validate_required_fields, or goes through           *)
(* credential injection and through _augment_from_text twice.              *)
(***************************************************************************)
TypedTexts == {<<>>, ScenarioText}

TypedOptions ==
    {NoOptions("absent"),
     [NoOptions("dict") EXCEPT !.user = <<"c", "a", "r", "o", "l">>],
     [NoOptions("dict") EXCEPT !.user = <<"c", "a", "r", "o", "l">>, !.password = <<"p", "w", "9">>]}

TypedSources ==
    {[NoSource("dict") EXCEPT
        !.type = t, !.jdbc_url = u, !.table = tb, !.frequency = f, !.options = o,
        !.topic = IF t = <<"k", "a", "f", "k", "a">> THEN <<"e", "v", "e", "n", "t", "s">> ELSE Absent] :
        t \in {<<"p", "o", "s", "t", "g", "r", "e", "s">>, <<"m", "y", "s", "q", "l">>, <<"k", "a", "f", "k", "a">>},
        u \in {Absent, <<"j", "d", "b", "c", ":", "m", "y", "s", "q", "l", ":", "/", "/", "h", "1", ":", "3", "3", "0", "6", "/", "c", "r", "m">>},
        tb \in {Absent, <<"o", "r", "d", "e", "r", "s">>},
        f \in {Absent, <<"s", "t", "r", "e", "a", "m", "i", "n", "g">>},
        o \in TypedOptions}

TypedSinks ==
    {[NoSink("dict") EXCEPT !.type = t, !.database = d, !.table = tb, !.path = p] :
        t \in {<<"d", "e", "l", "t", "a">>, <<"j", "d", "b", "c">>},
        d \in {Absent, <<"d", "w">>},
        tb \in {Absent, <<"f", "a", "c", "t">>, <<"d", "w", ".", "f", "a", "c", "t">>},
        p \in {Absent, <<"a", "b", "f", "s", "s", ":", "/", "/", "x", "/", "y">>}}

TypedDrafts ==
    {[EmptyDraft EXCEPT !.job_name = <<"n", "i", "g", "h", "t", "l", "y">>, !.source = s, !.sink = k,
                        !.transformations = NoTransformations("dict")] :
        s \in TypedSources, k \in TypedSinks}

InitTyped ==
    /\ request \in [natural_language : TypedTexts, config : {NoConfig}]
    /\ default_unity_catalog \in {<<"u", "c", "_", "t", "a", "r", "h", "o", "n", "e">>, None}
    /\ reply = EmptyDraft
    /\ raw_config \in TypedDrafts
    /\ config = NoConfig
    /\ pc = "construct"
    /\ outcome = NoOutcome
    /\ trace = <<>>
    /\ suspended = NoCall

\* _validate_required_fields on the configuration's mapping form (lines 129-159)
Revalidated(missing) ==
    IF missing # <<>>
    THEN Raised("ValueError", "missing, as the Validator reports", missing)
    ELSE NoOutcome

Revalidate ==
    /\ pc = "inject"
    /\ trace' = Append(trace, "validate")
    /\ outcome' = Revalidated(MissingFields(config, request.natural_language))
    /\ pc' = "revalidated"
    /\ UNCHANGED <<suspended, request, default_unity_catalog, reply, raw_config, config>>

\* _augment_from_text on the configuration it returned (lines 307-357)
AugmentAgain ==
    /\ pc = "done"
    /\ trace' = Append(trace, "augment")
    /\ IF AugmentRaises(config, request.natural_language)
       THEN /\ Fail("ValueError", "missing JDBC connection info", <<>>)
            /\ config' = config
       ELSE /\ config' = _augment_from_text(config, request.natural_language,
                                            default_unity_catalog)
            /\ pc' = "again"
            /\ outcome' = Returned
    /\ UNCHANGED <<suspended, request, default_unity_catalog, reply, raw_config>>

NextTyped ==
    \/ Construct
    \/ Revalidate
    \/ Inject
    \/ Augment
    \/ AugmentAgain

SpecTyped == InitTyped /\ [][NextTyped]_vars

\* C13 as stated: the Validator reports no missing field for a configuration that
\* passed typed construction.
C13_RoundTrip == pc = "revalidated" => outcome.fields = <<>>

\* a relational source whose options hold user and password, and a sink with a
\* database or a table that carries its schema
CompleteForValidator(c) ==
    /\ c.source.type \in {<<"p", "o", "s", "t", "g", "r", "e", "s">>, <<"m", "y", "s", "q", "l">>, <<"s", "q", "l", "s", "e", "r", "v", "e", "r">>}
    /\ Truthy(c.source.options.user)
    /\ Truthy(c.source.options.password)
    /\ Truthy(c.sink.database) \/ (Truthy(c.sink.table) /\ Contains(c.sink.table, "."))

\* C13, amended: the Validator reports no missing field for a configuration that
\* passed typed construction when its source is relational, its options hold a user
\* and a password, and its sink has a database or a dotted table; the text may be
\* empty.
C13_RoundTripWithCredentials ==
    (pc = "revalidated" /\ CompleteForValidator(config)) => outcome = NoOutcome

\* a mysql configuration with credentials and sink database, validated with no text
C13_Witness ==
    /\ pc = "revalidated"
    /\ nl = <<>>
    /\ CompleteForValidator(config)
    /\ config.source.type = <<"m", "y", "s", "q", "l">>
    /\ config.sink.database = <<"d", "w">>
    /\ outcome = NoOutcome

\* everything of the configuration but the source's JDBC URL and the sink
BesidesUrlAndSink(c) == [c EXCEPT !.source.jdbc_url = Absent, !.sink = NoSink("dict")]

\* no non-empty field is changed, and only the JDBC URL and sink fields are filled
FillsOnly(old, new) ==
    /\ BesidesUrlAndSink(new) = BesidesUrlAndSink(old)
    /\ Kept(old.source.jdbc_url, new.source.jdbc_url)
    /\ \A f \in {"type", "path", "catalog", "database", "table", "mode", "layer"} :
          Kept(old.sink[f], new.sink[f])
    /\ new.sink.options = old.sink.options

AllButPassword(text, creds) ==
    /\ Truthy(PrefillSourceType(NoSource("dict"), text))
    /\ Truthy(_parse_host_db(text).host)
    /\ Truthy(_parse_source_table(text))
    /\ Truthy(_parse_sink_table(text))
    /\ Truthy(creds.user)
    /\ ~Truthy(creds.password)

\* the LLM returned a draft, not a report of missing fields, and the draft's source
\* options hold no password
DraftWithoutPassword(draft) ==
    /\ draft.kind = "dict"
    /\ draft._raw = Absent
    /\ draft.validation_error = Absent
    /\ ~Truthy(draft.source.options.password)

\* C15: for a text that gives every required field but the password and a draft
\* without a password option, parse_request raises the missing-fields error whose
\* list is exactly the password label.
C15_OnlyPasswordMissing ==
    (Finished /\ request.config = NoConfig /\ DraftWithoutPassword(reply)
       /\ AllButPassword(nl, _extract_inline_credentials(nl)))
        => /\ pc = "error"
           /\ outcome.kind = "ValueError"
           /\ outcome.fields = <<LabelPassword>>

RelationalTypes == {<<"p", "o", "s", "t", "g", "r", "e", "s">>, <<"m", "y", "s", "q", "l">>, <<"s", "q", "l", "s", "e", "r", "v", "e", "r">>}
StreamingTypes == {<<"k", "a", "f", "k", "a">>, <<"e", "v", "e", "n", "t", "_", "h", "u", "b", "s">>}

\* relational sources have URL and table
RelationalComplete(source) ==
    source.type \in RelationalTypes => Truthy(source.jdbc_url) /\ Truthy(source.table)

\* streaming sources have a topic and the frequency streaming
StreamingComplete(source) ==
    source.type \in StreamingTypes
        => Truthy(source.topic) /\ source.frequency = <<"s", "t", "r", "e", "a", "m", "i", "n", "g">>

\* the frequency streaming goes with a streaming type only
StreamingOnlyForStreams(source) ==
    source.frequency = <<"s", "t", "r", "e", "a", "m", "i", "n", "g">> => source.type \in StreamingTypes

\* C16: a source that typed construction accepted is relational with URL and table,
\* or streaming with topic and frequency streaming, and has the frequency streaming
\* only when its type is a streaming type.
C16_SourceInvariant ==
    pc = "inject"
        => /\ RelationalComplete(config.source)
           /\ StreamingComplete(config.source)
           /\ StreamingOnlyForStreams(config.source)

\* the source type of the request: the draft's, else the one the text names
TypeOfRequest(draft, text) == PrefillSourceType(DictSource(draft), text)

\* the default port of a relational dialect
DefaultPortOf(type) ==
    CASE type = <<"p", "o", "s", "t", "g", "r", "e", "s">> -> DEFAULT_POSTGRES_PORT
      [] type = <<"m", "y", "s", "q", "l">> -> 3306
      [] type = <<"s", "q", "l", "s", "e", "r", "v", "e", "r">> -> 1433

\* the port of the URL: the one the text gives after the host, else the dialect's
PortFor(type, hd) ==
    IF hd.port # DEFAULT_POSTGRES_PORT THEN hd.port ELSE DefaultPortOf(type)

\* the JDBC subprotocol of a relational dialect
SubprotocolOf(type) == IF type = <<"p", "o", "s", "t", "g", "r", "e", "s">> THEN <<"p", "o", "s", "t", "g", "r", "e", "s", "q", "l">> ELSE type

StartsWith(s, prefix) ==
    Len(s) >= Len(prefix) /\ SubSeq(s, 1, Len(prefix)) = prefix

\* the URL is one of the dialect, to the host and port
UrlBuiltFor(url, type, hd) ==
    /\ Truthy(url)
    /\ StartsWith(url, <<"j", "d", "b", "c", ":">> \o SubprotocolOf(type) \o <<":", "/", "/">> \o hd.host \o <<":">>
                         \o IntStr(PortFor(type, hd)))

\* C17: when the draft has no JDBC URL, the request's source type is relational and
\* the text names a host, the configuration returned has that source type and a
\* URL of that dialect to the text's host, at the port the text gives, else at the
\* dialect's default port: 5432 for postgres, 3306 for mysql, 1433 for sqlserver.
C17_UrlPerDialect ==
    (pc = "done" /\ request.config = NoConfig /\ reply.kind = "dict"
       /\ ~Truthy(reply.source.jdbc_url)
       /\ TypeOfRequest(reply, nl) \in RelationalTypes
       /\ Truthy(_parse_host_db(nl).host))
        => /\ config.source.type = TypeOfRequest(reply, nl)
           /\ UrlBuiltFor(config.source.jdbc_url, TypeOfRequest(reply, nl), _parse_host_db(nl))

\* C18: for the text "source table orders, write to test.pgsqltest1" the sink-table
\* rule gives test.pgsqltest1 and the source-table rule gives orders; pre-fill puts
\* them into the draft as sink database test, sink table pgsqltest1 and source
\* table orders, the last under no other schema than the dialect's.
C18_Segmentation ==
    (nl = SegmentationText /\ Ran("prefill"))
        => /\ _parse_sink_table(nl) = <<"t", "e", "s", "t", ".", "p", "g", "s", "q", "l", "t", "e", "s", "t", "1">>
           /\ _parse_source_table(nl) = <<"o", "r", "d", "e", "r", "s">>
           /\ raw_config.sink.database = <<"t", "e", "s", "t">>
           /\ raw_config.sink.table = <<"p", "g", "s", "q", "l", "t", "e", "s", "t", "1">>
           /\ raw_config.source.table \in {<<"o", "r", "d", "e", "r", "s">>, <<"p", "u", "b", "l", "i", "c", ".", "o", "r", "d", "e", "r", "s">>}

\* C19: a draft that typed construction accepted with an aggregate has a metric
\* mapping with a non-empty function; an empty mapping, also the one that
\* _normalize_transformations makes of a list, is rejected.
C19_AggregateHasMetric ==
    (pc = "inject" /\ ~Ran("fallback") /\ raw_config.transformations.aggregate.kind = "dict")
        => /\ raw_config.transformations.aggregate.metrics = "functions"
           /\ config.transformations.aggregate.metrics = "functions"

\* C20: a request with neither a configuration nor a non-empty text makes
\* parse_request raise the input error at once: the LLM is not called, no stage
\* after the entry test runs, and no configuration is returned.
C20_NeitherGiven ==
    (request.config = NoConfig /\ ~Truthy(nl) /\ pc # "start")
        => /\ pc = "error"
           /\ outcome = Raised("ValueError", "Either natural_language or config must be provided", <<>>)
           /\ trace = <<"enter">>
           /\ config = NoConfig
           /\ raw_config = EmptyDraft

\* a request with the empty text and no configuration, refused
C20_Witness ==
    /\ pc = "error"
    /\ request.config = NoConfig
    /\ nl = <<>>
    /\ outcome.kind = "ValueError"
    /\ trace = <<"enter">>

\* the text has a sink keyword
HasSinkKeyword(text) == SearchI(SinkKeyword, text).found

\* both segments are cut at the start of the first sink keyword
CutAt(start, source_text, sink_text, text) ==
    /\ source_text = SubSeq(text, 1, start - 1)
    /\ sink_text = SubSeq(text, start, Len(text))
    /\ source_text \o sink_text = text

\* C21: for a text with a sink keyword, the source segment is the text before the
\* first sink keyword and the sink segment the text from it on; together they are
\* the text, and no part of it is in both.
C21_SameCut ==
    (Ran("prefill") /\ HasSinkKeyword(nl))
        => CutAt(SearchI(SinkKeyword, nl).start, _get_source_segment(nl),
                 _get_sink_segment(nl), nl)

\* the table names a qualified or bare name stands for
TableNames(name) ==
    IF ~Truthy(name) THEN {}
    ELSE IF Contains(name, ".") THEN {name, SplitTail(name, ".")}
    ELSE {name}

\* the table-name token of the sink part, for a text that has a sink part
SinkPartToken(m, text) == IF HasSinkKeyword(text) /\ m.found THEN {m.group} ELSE {}

\* the sink tables the draft and the sink part of the text give
SinkTablesGiven(draft, text) ==
    TableNames(draft.sink.table)
    \cup TableNames(_parse_sink_table(text))
    \cup SinkPartToken(FirstMatch(SinkTableNamePatterns, 1, TRUE, _get_sink_segment(text)), text)

\* C22: the sink table of a configuration returned for a text is one the draft gave
\* or one the sink part of the text names, never one made from the source table,
\* on the primary path and on the fallback path.
C22_SinkTableGiven ==
    (pc = "done" /\ request.config = NoConfig)
        => config.sink.table \in SinkTablesGiven(reply, nl)

\* ingest_<table>, with the table's dot, or the dot between database and table, as "_"
IngestNames(database, table) ==
    {<<"i", "n", "g", "e", "s", "t", "_">> \o Replace(table, ".", "_")}
    \cup (IF Truthy(database) THEN {<<"i", "n", "g", "e", "s", "t", "_">> \o database \o <<"_">> \o table} ELSE {})

\* the job names the tables of the configuration give
JobNamesFor(source, sink) ==
    IF Truthy(sink.table) THEN IngestNames(sink.database, sink.table)
    ELSE IF Truthy(source.table) THEN IngestNames(None, source.table)
    ELSE {DEFAULT_JOB_NAME}

\* C23: when the draft has no job name, the job name of the configuration returned
\* is ingest_<sink table> when it has a sink table, else ingest_<source table>, and
\* the default name only when it has neither.
C23_JobNameFromTables ==
    (pc = "done" /\ request.config = NoConfig /\ ~Truthy(reply.job_name))
        => config.job_name \in JobNamesFor(config.source, config.sink)

\* ---- two invocations on one parser ----

\* the locals of the invocation that is running, as a suspension keeps them
Running ==
    [request |-> request, reply |-> reply, raw_config |-> raw_config, config |-> config,
     pc |-> pc, outcome |-> outcome, trace |-> trace]

\* an invocation that has not yet executed a stage
Called(call) ==
    [request |-> call.request, reply |-> call.reply, raw_config |-> EmptyDraft,
     config |-> NoConfig, pc |-> "start", outcome |-> NoOutcome, trace |-> <<>>]

\* the requests the two invocations are made for, each with what its LLM call does
PairCalls ==
    {[request |-> [natural_language |-> TextOf(c), config |-> NoConfig], reply |-> r] :
        c \in {ScenarioChoice, [ScenarioChoice EXCEPT ![5] = 2]},
        r \in {EmptyDraft,
               WithKey(EmptyDraft, "sink.mode", None),
               WithKey(EmptyDraft, "source.options.password", <<"p", "w", "9">>),
               [EmptyDraft EXCEPT !.kind = "raise"]}}
    \cup {[request |-> [natural_language |-> None, config |-> ReadyConfig],
           reply |-> EmptyDraft]}

InitPair ==
    /\ \E a \in PairCalls : \E b \in PairCalls \ {a} :
            /\ request = a.request
            /\ reply = a.reply
            /\ suspended = Called(b)
    /\ default_unity_catalog \in {<<"u", "c", "_", "t", "a", "r", "h", "o", "n", "e">>, None}
    /\ raw_config = EmptyDraft
    /\ config = NoConfig
    /\ pc = "start"
    /\ outcome = NoOutcome
    /\ trace = <<>>

\* Switch with the draft kept in an attribute of the parser: the invocation that
\* resumes finds the draft the other one left there
SwitchSharingDraft ==
    /\ suspended.pc \notin {"absent", "done", "error"}
    /\ suspended' = Running
    /\ request' = suspended.request
    /\ reply' = suspended.reply
    /\ config' = suspended.config
    /\ pc' = suspended.pc
    /\ outcome' = suspended.outcome
    /\ trace' = suspended.trace
    /\ UNCHANGED <<default_unity_catalog, raw_config>>

\* between two stages the other invocation runs on: raw_config, config and the
\* rest are locals of parse_request, each invocation has its own; the parser
\* holds the settings and the LLM client only (lines 25-27)
Switch ==
    /\ suspended.pc \notin {"absent", "done", "error"}
    /\ suspended' = Running
    /\ request' = suspended.request
    /\ reply' = suspended.reply
    /\ raw_config' = suspended.raw_config
    /\ config' = suspended.config
    /\ pc' = suspended.pc
    /\ outcome' = suspended.outcome
    /\ trace' = suspended.trace
    /\ UNCHANGED default_unity_catalog

NextPair ==
    \/ Enter
    \/ NlToConfig
    \/ CheckDraft
    \/ Prefill
    \/ FillDefaults
    \/ Validate
    \/ Normalize
    \/ Construct
    \/ Fallback
    \/ Inject
    \/ Augment
    \/ Switch

SpecPair == InitPair /\ [][NextPair]_vars

\* ---- parse_request as a function of the request, the reply and the settings ----

EndsWith(o, c) == [outcome |-> o, config |-> c]

\* lines 95-105
AloneAugment(built, text, catalog) ==
    IF AugmentRaises(built, text)
    THEN EndsWith(Raised("ValueError", "missing JDBC connection info", <<>>), NoConfig)
    ELSE EndsWith(Returned, _augment_from_text(built, text, catalog))

\* lines 86-94
AloneFallback(fallback, text, catalog) ==
    IF fallback.kind # "dict"
    THEN EndsWith(Raised("ValueError", "LLM could not produce a valid ingestion plan from the prompt", <<>>), NoConfig)
    ELSE IF ParseObjRaises(fallback)
    THEN EndsWith(Raised("ValidationError", "the fallback failed validation", <<>>), NoConfig)
    ELSE AloneAugment(InjectCredentials(ParseObj(fallback), text), text, catalog)

\* lines 82-85
AloneConstruct(raw, text, catalog) ==
    IF ParseObjRaises(raw)
    THEN AloneFallback(_build_from_text(text), text, catalog)
    ELSE AloneAugment(InjectCredentials(ParseObj(raw), text), text, catalog)

\* lines 78-80
AloneValidate(raw, text, catalog) ==
    IF OptionsLookupRaises(raw, text)
    THEN EndsWith(Raised("AttributeError", "'NoneType' object has no attribute 'get'", <<>>), NoConfig)
    ELSE IF MissingFields(raw, text) # <<>>
    THEN EndsWith(Raised("ValueError", "missing, as the Validator reports", MissingFields(raw, text)), NoConfig)
    ELSE AloneConstruct(_normalize_transformations(raw), text, catalog)

\* lines 40-75
AloneCheck(raw, text, catalog) ==
    IF raw.kind # "dict" \/ raw._raw # Absent
    THEN EndsWith(Raised("ValueError", "LLM could not produce a valid ingestion plan from the prompt", <<>>), NoConfig)
    ELSE IF raw.validation_error # Absent
    THEN EndsWith(Raised("ValueError", "missing, as the LLM reports", raw.missing), NoConfig)
    ELSE IF WithTopLevelKeys(raw).source.kind # "dict"
    THEN EndsWith(Raised("ValueError", "source section is invalid", <<>>), NoConfig)
    ELSE IF WithTopLevelKeys(raw).sink.kind # "dict"
    THEN EndsWith(Raised("ValueError", "sink section is invalid", <<>>), NoConfig)
    ELSE AloneValidate(
            _fill_jdbc_and_sink_defaults(_prefill_from_text(WithTopLevelKeys(raw), text), text),
            text, catalog)

\* lines 29-39: the outcome of one invocation that runs alone
Alone(req, rep, catalog) ==
    IF req.config # NoConfig THEN EndsWith(Returned, req.config)
    ELSE IF ~Truthy(req.natural_language)
    THEN EndsWith(Raised("ValueError", "Either natural_language or config must be provided", <<>>), NoConfig)
    ELSE IF rep.kind = "raise"
    THEN EndsWith(Raised("LLMCallError", "chat_completion raised", <<>>), NoConfig)
    ELSE AloneCheck(IF rep.kind = "text" THEN [EmptyDraft EXCEPT !._raw = <<"s", "o", "r", "r", "y">>] ELSE rep,
                    req.natural_language, catalog)

\* the invocation ended as it ends alone: the same error, or the same configuration
EndsAsAlone(call) ==
    call.pc \in {"done", "error"}
        => /\ call.outcome = Alone(call.request, call.reply, default_unity_catalog).outcome
           /\ call.pc = "done"
                => call.config = Alone(call.request, call.reply, default_unity_catalog).config

\* each invocation that has ended ended as it ends alone
AsAlone == suspended.pc # "absent" => EndsAsAlone(Running) /\ EndsAsAlone(suspended)

\* C24: of two invocations for different requests, interleaved at stage boundaries on
\* one parser, each ends with the outcome (the configuration or the error) it has
\* when it runs alone, and no step of either modifies the settings
C24_AsAlone ==
    /\ []AsAlone
    /\ [][default_unity_catalog' = default_unity_catalog]_vars

\* one invocation has returned the configuration of the fallback while the other,
\* for another request, is suspended between two of its stages
C24_Witness ==
    /\ pc = "done"
    /\ Ran("fallback")
    /\ suspended.pc = "construct"
    /\ suspended.request # request

\* C25: a configuration returned for a text has the source type the draft had when
\* the Validator accepted it
C25_TypeKept ==
    (pc = "done" /\ request.config = NoConfig)
        => config.source.type = raw_config.source.type

\* C26: a configuration returned for a text, built from the draft or by the fallback,
\* has a non-empty user and a non-empty password in its source options
C26_CredentialsKept ==
    (pc = "done" /\ request.config = NoConfig)
        => /\ Truthy(config.source.options.user)
           /\ Truthy(config.source.options.password)

\* <base path>/<layer>/<database>/<table> of a typed sink; a sink without a
\* database is filed under "default" (lines 237, 275 and 346)
PathOfSink(sink, text) ==
    OrElse(_parse_uc_path(text), DEFAULT_UC_BASE_PATH) \o <<"/">> \o Fmt(sink.layer)
      \o <<"/">> \o OrElse(sink.database, <<"d", "e", "f", "a", "u", "l", "t">>) \o <<"/">> \o Fmt(sink.table)

\* C27: a sink path the draft did not supply is the path of the layer, the database
\* and the table the returned configuration ends up with
C27_PathOfFinalSink ==
    (pc = "done" /\ request.config = NoConfig /\ ~Truthy(reply.sink.path))
        => config.sink.path = PathOfSink(config.sink, nl)

\* what typed construction asks of the mapping the fallback builds
BuiltIsTyped(fallback) ==
    fallback.kind = "dict"
        => /\ ~ParseObjRaises(fallback)
           /\ fallback.source.type \in RelationalTypes
           /\ Truthy(fallback.source.jdbc_url)
           /\ Truthy(fallback.source.table)
           /\ fallback.source.frequency \in Frequency
           /\ fallback.sink.type = <<"d", "e", "l", "t", "a">>
           /\ Truthy(fallback.sink.table)

C29_OnlyValueError ==
    (pc = "error" /\ reply.kind = "dict") => outcome.kind = "ValueError"

=============================================================================
